---- MODULE Spec2Model ----
(***************************************************************************)
(* titan-core: the subsystem / task dispatch runtime.                      *)
(*                                                                         *)
(* One instrumented subsystem S (started with Subsystem::start) serves a   *)
(* caller; the Tasks subsystem T (started with Subsystem::start_quiet) is  *)
(* its instrumentation sink.  A message sent to S is numbered by its place *)
(* in the send history `sent`; the message's path through                  *)
(* start -> launch_task -> subsystem_run_task -> execute is its pc.        *)
(*                                                                         *)
(* Task ids are name + "_" + nanoid(16) (subsystem.rs:69); the model uses  *)
(* the message number as the id, i.e. it takes the random suffixes of two  *)
(* runs to differ.                                                         *)
(***************************************************************************)
EXTENDS Integers, Sequences, FiniteSets, TLC

\* ---------------------------------------------------------------- bounds
\* The longest run of sends of the sequential caller.
MaxMsgs == 3

\* The handles the concurrent caller holds at once.
MaxConcurrent == 2

\* The longest Vec handed to send_batch / send_batch_mut.
MaxBatch == 2

\* The elapsed times of a task run are 1..MaxElapsed.
MaxElapsed == 1

\* The sends of the detached caller.
MaxDetached == 2

\* The SubsystemRefs to S the caller holds at first: the one SubsystemRef::new
\* returned and its clones.
MaxRefs == 2

\* The Channels objects (the first and its clones).
MaxClones == 2

\* The SubsystemRefs of one subsystem type that exist to be registered.
MaxBoxes == 2

\* The successful add calls per subsystem type.
MaxAdds == 2

\* The tasks sent through refs that get returned, per mailbox.
MaxChanSends == 1

\* The threads that call into a Channels at the same time.
MaxThreads == 2

\* The calls of end_benchmark per benchmark name.
MaxSamples == 3

\* The durations handed to end_benchmark are 0..MaxDuration.
MaxDuration == 2

\* The StartBenchmark messages per benchmark name.
MaxStarts == 2

\* The task ids handed to StartTask / EndTask directly are 1..MaxIds.
MaxIds == 2

\* The direct calls of the Tasks subsystem's handlers.
MaxCalls == 4

\* The benchmark tasks whose EndBenchmark messages the Tasks subsystem runs
\* concurrently.
MaxHandlers == 3

\* The tasks that contend for one ArcLock.
MaxClients == 3

\* The values assigned through an ArcLock are 1..MaxValue.
MaxValue == 2

\* The sends of the caller that tries a task type on both lanes.
MaxFlagged == 2

\* ------------------------------------------------------------- constants
\* BenchmarkLog.min starts at f64::MAX: any value above every duration.
F64_MAX == 1000000

\* An Output that is the error of the task's own execute (an Err value of
\* its Result type): any value no counter reading equals.
TaskExecutionError == -1

\* ------------------------------------------------------------ task types
\* The flags a Task type fixes: access mode (ImmutableTask / MutableTask),
\* log (default true), benchmark (default false), io (default false).
\* Increment(n) and Get() are the end-to-end example's tasks on a counter;
\* Sample is a read-only benchmark task on the blocking lane; Touch is a
\* mutating task with logging switched off.
TaskOf(name, isMut, log, benchmark, io, arg) ==
    [name |-> name, is_mut |-> isMut, log |-> log,
     benchmark |-> benchmark, io |-> io, arg |-> arg]

Increment(n) == TaskOf("Increment", TRUE, TRUE, FALSE, FALSE, n)

Get == TaskOf("Get", FALSE, TRUE, FALSE, FALSE, 0)

Sample == TaskOf("Sample", FALSE, TRUE, TRUE, TRUE, 0)

Touch == TaskOf("Touch", TRUE, FALSE, FALSE, FALSE, 1)

Catalogue == {Increment(5), Increment(3), Get, Sample, Touch}

\* The state effect of a task's execute body on the counter.
BodyEffect(t, c) == IF t.is_mut THEN c + t.arg ELSE c

\* The Output of a task's execute body, run against counter value c
\* (the value before the body's effect). Touch's Output is a Result: it
\* reports an error when it finds the counter at 0.
BodyOutput(t, c) ==
    IF t.name = "Touch" /\ c = 0 THEN TaskExecutionError
    ELSE IF t.is_mut THEN 0
    ELSE c

\* The tasks whose execute body can abort.
MayAbort(t) == t.name \in {"Sample", "Touch"}

\* ------------------------------------------------------- oneshot / handle
Empty == [tag |-> "empty", val |-> 0]

Closed == [tag |-> "closed", val |-> 0]

Value(v) == [tag |-> "value", val |-> v]

Pending == [tag |-> "pending", val |-> 0]

Ok(v) == [tag |-> "ok", val |-> v]

Cancelled == [tag |-> "cancelled", val |-> 0]

\* A TaskHandle the caller dropped without awaiting it to the end.
Dropped == [tag |-> "dropped", val |-> 0]

\* A oneshot whose receiver was dropped before a value was sent.
Orphaned == [tag |-> "orphaned", val |-> 0]

VARIABLES
    caller,      \* the calling program: sequential | concurrent | batch
    sent,        \* send history: the tasks handed to send / send_mut, in order
    pc,          \* per message: where its dispatch is
    mailbox,     \* S's mpsc queue: message numbers
    received,    \* the messages S's loop got from recv, in order
    rxOpen,      \* per subsystem: its receiver is alive
    lockW,       \* S's ArcLock: the message holding the write guard (0: none)
    lockR,       \* S's ArcLock: the messages holding read guards
    lockQueue,   \* S's ArcLock: the read() / lock() calls waiting, oldest first
    counter,     \* S's state
    reply,       \* per message: its oneshot reply channel
    handle,      \* per message: what polling its TaskHandle has returned
    outcome,     \* per message: what its execute body returned (Empty: nothing)
    startReply,  \* per message: oneshot of its StartTask / StartBenchmark
    endReply,    \* per message: oneshot of its EndTask / EndBenchmark
    tmailbox,    \* T's mpsc queue: instrumentation messages
    tspawned,    \* instrumentation messages T's loop has launched
    taskLog,     \* TasksSubsystem.tasks (insertion ordered)
    benchLog,    \* TasksSubsystem.benchmarks (insertion ordered)
    batchMembers,\* the batch's messages, in submission order
    batchHandles,\* BatchHandle.handles: the handles not yet yielded
    readyQueue,  \* FuturesUnordered's ready-to-run queue
    wakers,      \* handles of the batch polled Pending (waker registered)
    pollResults, \* `results` of the poll call in progress
    batchState,  \* none | idle | polling | ready
    batchOut,    \* what the BatchHandle resolved to
    refs,        \* per subsystem: the SubsystemRef clones the caller holds
    stopped,     \* per subsystem: its loop ended and reported stop
    instr,       \* per message: the kinds its run handed to tasks.send, in order
    lane,        \* per message: where launch_task spawned it (none | shared | blocking)
    doneOrder,   \* the messages whose execute body completed, in that order
    chanPtr,     \* per Channels object: the Arc cell its `channels` field points to
    chanHeap,    \* per Arc cell: the HashMap<TypeId, ref> (0: no entry)
    chanLock,    \* per Arc cell: its RwLock (a writer, the number of readers)
    chanThread,  \* per thread: the Channels call it is in, and what it returned
    chanAdded,   \* per subsystem type: the refs inserted by add, in order
    chanInbox,   \* per subsystem type and ref: the tasks delivered to its mailbox
    benchSamples,\* per benchmark name: the durations end_benchmark applied to it
    benchStarts, \* per benchmark name: the StartBenchmark messages handled for it
    lockClient,  \* per contending task: idle | reading | writing | waitRead |
                 \* waitWrite | storing | refused
    lockOp,      \* per contending task: the ArcLock method it called last
    lockVal,     \* per contending task: the value it is writing (0: none)
    lockCell,    \* per Arc cell: the value held, as its two words
    lockWritten, \* the value of the last assignment that completed
    logCalls,    \* the calls of the Tasks subsystem's handlers made directly
    lastCall,    \* per map of the Tasks subsystem: the last such call on it
    nested,      \* the pairs <<m, i>>: the body of message m sent message i to
                 \* its own subsystem and awaits its handle
    handlers,    \* per concurrent EndBenchmark task on T: where its handler is
    benchMutex   \* the mutex of TasksSubsystem.benchmarks: holder and waiters

chanVars == <<chanPtr, chanHeap, chanLock, chanThread, chanAdded, chanInbox>>

runtimeVars ==
    <<caller, sent, pc, mailbox, received, rxOpen, lockW, lockR, lockQueue, counter, reply,
      handle, outcome, startReply, endReply, tmailbox, tspawned, taskLog,
      benchLog, batchMembers, batchHandles, readyQueue, wakers,
      pollResults, batchState, batchOut, refs, stopped, instr, lane, doneOrder>>

arcVars == <<lockClient, lockOp, lockVal, lockCell, lockWritten>>

benchCalls == <<benchSamples, benchStarts>>

logVars == <<logCalls, lastCall>>

\* The variables of the handlers and tasks that are looked at on their own.
nestVars == <<nested>>

mutexVars == <<handlers, benchMutex>>

extraVars == <<logVars, nestVars, mutexVars>>

sideVars == <<benchCalls, arcVars, extraVars>>

vars == <<runtimeVars, chanVars, sideVars>>

\* The dispatch state outside the lock and the Tasks subsystem.
dispatchVars ==
    <<caller, sent, pc, mailbox, received, rxOpen, reply, handle, outcome,
      startReply, endReply, batchMembers, batchHandles, readyQueue, wakers,
      pollResults, batchState, batchOut, refs, stopped, instr, lane, doneOrder>>

callerVars == <<caller, sent, handle>>

lockVars == <<lockW, lockR, lockQueue, counter>>

tasksVars == <<tmailbox, tspawned, taskLog, benchLog>>

batchVars == <<batchMembers, batchHandles, pollResults, batchState, batchOut>>

loopVars == <<refs, stopped>>

\* What is kept of each run: its instrumentation sends, its lane, and the
\* order in which the bodies completed.
runVars == <<instr, lane, doneOrder>>

Msgs == 1..Len(sent)

SeqToSet(s) == {s[i] : i \in 1..Len(s)}

\* The callers: one that awaits each handle before it sends again, one that
\* sends without awaiting, one that submits a batch, and one that sends and
\* forgets: it may drop a handle unanswered, and drop its refs.
Callers == {"sequential", "concurrent", "batch", "detached"}

\* The subsystem types a Channels is keyed by.
ChanTypes == {"S", "T"}

\* HashMap::new()
EmptyRegistry == [ty \in ChanTypes |-> 0]

Unlocked == [w |-> FALSE, r |-> 0]

Idle == [phase |-> "idle", c |-> 0, ty |-> "S", box |-> 0, tag |-> "none", last |-> 0]

\* Channels::default()
ChannelsDefault ==
    /\ chanPtr = <<1>>
    /\ chanHeap = <<EmptyRegistry>>
    /\ chanLock = <<Unlocked>>
    /\ chanThread = [t \in 1..MaxThreads |-> Idle]
    /\ chanAdded = [ty \in ChanTypes |-> <<>>]
    /\ chanInbox = [ty \in ChanTypes |-> [k \in 1..MaxBoxes |-> 0]]

\* A value of the type an ArcLock holds, as the two words it occupies.
Whole(v) == <<v, v>>

\* The names benchmarks are kept under (the names of benchmark tasks).
BenchNames == {"Sample", "Probe"}

\* An EndBenchmark task that was not sent yet.
NoHandler == [phase |-> "idle", name |-> "", time |-> 0, seen |-> <<>>]

\* No handler of the Tasks subsystem was called yet.
NoCall == [n |-> 0, op |-> "none", id |-> 0, name |-> "", time |-> 0,
           applied |-> <<>>, result |-> <<>>]

Init ==
    /\ ChannelsDefault
    /\ benchSamples = [n \in BenchNames |-> <<>>]
    /\ benchStarts = [n \in BenchNames |-> 0]
    /\ lockClient = [c \in 1..MaxClients |-> "idle"]
    /\ lockOp = [c \in 1..MaxClients |-> "none"]
    /\ lockVal = [c \in 1..MaxClients |-> 0]
    /\ lockCell = [p \in 1..MaxClients |-> Whole(0)]
    /\ lockWritten = 0
    /\ logCalls = 0
    /\ lastCall = [tasks |-> NoCall, benchmarks |-> NoCall]
    /\ nested = {}
    /\ handlers = [h \in 1..MaxHandlers |-> NoHandler]
    /\ benchMutex = [holder |-> 0, queue |-> <<>>]
    /\ caller \in Callers
    /\ sent = <<>>
    /\ pc = <<>>
    /\ mailbox = <<>>
    /\ received = <<>>
    /\ rxOpen = [s \in {"S", "T"} |-> TRUE]
    /\ lockW = 0
    /\ lockR = {}
    /\ lockQueue = <<>>
    /\ counter = 0
    /\ reply = <<>>
    /\ handle = <<>>
    /\ outcome = <<>>
    /\ startReply = <<>>
    /\ endReply = <<>>
    /\ tmailbox = <<>>
    /\ tspawned = {}
    /\ taskLog = <<>>
    /\ benchLog = <<>>
    /\ batchMembers = <<>>
    /\ batchHandles = {}
    /\ readyQueue = <<>>
    /\ wakers = {}
    /\ pollResults = <<>>
    /\ batchState = "none"
    /\ batchOut = <<>>
    /\ refs = [s \in {"S", "T"} |-> IF s = "S" THEN MaxRefs ELSE 1]
    /\ stopped = [s \in {"S", "T"} |-> FALSE]
    /\ instr = <<>>
    /\ lane = <<>>
    /\ doneOrder = <<>>

\* ------------------------------------------------------------- helpers
Fill(n, x) == [i \in 1..n |-> x]

\* A oneshot of the batch got its value or lost its sender: the handles that
\* registered a waker go to the back of the ready-to-run queue, in that order.
Notify(ms) ==
    /\ readyQueue' = readyQueue \o SelectSeq(ms, LAMBDA m : m \in wakers)
    /\ wakers' = wakers \ SeqToSet(ms)

NoNotify == UNCHANGED <<readyQueue, wakers>>

\* A oneshot whose sender is dropped without sending: closed, unless its
\* receiver is already gone.
DropSender(r) == IF r = Orphaned THEN Orphaned ELSE Closed

\* Faulty variant, for comparison: a message refused by a closed mailbox is kept alive, not dropped:
\* its reply sender never closes.
Enqueue_leak(ts) ==
    LET n == Len(sent)
        k == Len(ts)
    IN  /\ sent' = sent \o ts
        /\ handle' = handle \o Fill(k, Pending)
        /\ outcome' = outcome \o Fill(k, Empty)
        /\ startReply' = startReply \o Fill(k, "none")
        /\ endReply' = endReply \o Fill(k, "none")
        /\ instr' = instr \o Fill(k, <<>>)
        /\ lane' = lane \o Fill(k, "none")
        /\ IF rxOpen["S"]
           THEN /\ mailbox' = mailbox \o [i \in 1..k |-> n + i]
                /\ pc' = pc \o Fill(k, "queued")
                /\ reply' = reply \o Fill(k, Empty)
           ELSE /\ mailbox' = mailbox
                /\ pc' = pc \o Fill(k, "dropped")
                /\ reply' = reply \o Fill(k, Empty)

\* mpsc::UnboundedSender::send on S's mailbox for the tasks ts, in order: each
\* message is queued, or, when the receiver is gone, handed back in the
\* SendError and dropped with its reply sender.
Enqueue(ts) ==
    LET n == Len(sent)
        k == Len(ts)
    IN  /\ sent' = sent \o ts
        /\ handle' = handle \o Fill(k, Pending)
        /\ outcome' = outcome \o Fill(k, Empty)
        /\ startReply' = startReply \o Fill(k, "none")
        /\ endReply' = endReply \o Fill(k, "none")
        /\ instr' = instr \o Fill(k, <<>>)
        /\ lane' = lane \o Fill(k, "none")
        /\ IF rxOpen["S"]
           THEN /\ mailbox' = mailbox \o [i \in 1..k |-> n + i]
                /\ pc' = pc \o Fill(k, "queued")
                /\ reply' = reply \o Fill(k, Empty)
           ELSE /\ mailbox' = mailbox
                /\ pc' = pc \o Fill(k, "dropped")
                /\ reply' = reply \o Fill(k, Closed)

CanSend ==
    \/ /\ caller = "sequential"
       /\ Len(sent) < MaxMsgs
       /\ \A m \in Msgs : handle[m] /= Pending
    \/ /\ caller = "concurrent"
       /\ Len(sent) < MaxConcurrent
    \/ /\ caller = "detached"
       /\ Len(sent) < MaxDetached
       /\ refs["S"] > 0

CanSendBatch(k) ==
    /\ caller = "batch"
    /\ k <= MaxBatch

\* ------------------------------------------------------ SubsystemRef
send(t) ==
    /\ ~t.is_mut
    /\ CanSend
    /\ Enqueue(<<t>>)
    /\ NoNotify
    /\ UNCHANGED <<doneOrder, sideVars, chanVars, loopVars, caller, received, rxOpen, lockVars, tasksVars, batchVars>>

send_mut(t) ==
    /\ t.is_mut
    /\ CanSend
    /\ Enqueue(<<t>>)
    /\ NoNotify
    /\ UNCHANGED <<doneOrder, sideVars, chanVars, loopVars, caller, received, rxOpen, lockVars, tasksVars, batchVars>>

\* BatchHandle::new: the handles are collected into a FuturesUnordered, each
\* pushed on its ready-to-run queue in submission order.
BatchHandle_new(k) ==
    LET ids == [i \in 1..k |-> Len(sent) + i]
    IN  /\ batchState = "none"
        /\ batchMembers' = ids
        /\ batchHandles' = SeqToSet(ids)
        /\ readyQueue' = ids
        /\ wakers' = {}
        /\ batchState' = "idle"
        /\ UNCHANGED <<pollResults, batchOut>>

\* send_batch takes a Vec<T>: tasks of one type.
BatchesOf(isMut) ==
    {ts \in UNION {[1..k -> Catalogue] : k \in 0..MaxBatch} :
        \A i \in 1..Len(ts) : ts[i].is_mut = isMut /\ ts[i].name = ts[1].name}

send_batch(ts) ==
    /\ CanSendBatch(Len(ts))
    /\ Enqueue(ts)
    /\ BatchHandle_new(Len(ts))
    /\ UNCHANGED <<doneOrder, sideVars, chanVars, loopVars, caller, received, rxOpen, lockVars, tasksVars>>

send_batch_mut(ts) ==
    /\ Len(ts) > 0
    /\ CanSendBatch(Len(ts))
    /\ Enqueue(ts)
    /\ BatchHandle_new(Len(ts))
    /\ UNCHANGED <<doneOrder, sideVars, chanVars, loopVars, caller, received, rxOpen, lockVars, tasksVars>>

\* --------------------------------------------------- the dispatch loop
\* Faulty variant, for comparison: recv hands out the newest queued message.
recv_newest(q) == q[Len(q)]

\* mpsc recv: the oldest queued message.
recv(q) == Head(q)

\* Faulty variant, for comparison: the blocking lane runs the task without
\* its Start instrumentation.
launch_task_bare(m) ==
    \/ /\ ~sent[m].io
       /\ lane' = [lane EXCEPT ![m] = "shared"]
       /\ pc' = [pc EXCEPT ![m] = "spawned"]
    \/ /\ sent[m].io
       /\ lane' = [lane EXCEPT ![m] = "blocking"]
       /\ pc' = [pc EXCEPT ![m] = "wantLock"]

\* launch_task: the io flag picks the lane (tokio::spawn or spawn_blocking with
\* block_on); both run subsystem_run_task.
launch_task(m) ==
    \/ /\ ~sent[m].io
       /\ lane' = [lane EXCEPT ![m] = "shared"]
       /\ pc' = [pc EXCEPT ![m] = "spawned"]
    \/ /\ sent[m].io
       /\ lane' = [lane EXCEPT ![m] = "blocking"]
       /\ pc' = [pc EXCEPT ![m] = "spawned"]

\* Faulty variant, for comparison: the loop awaits the task it launched before
\* it receives again.
start_serial ==
    /\ rxOpen["S"]
    /\ mailbox /= <<>>
    /\ \A k \in 1..Len(received) : pc[received[k]] \in {"done", "failed"}
    /\ LET m == recv(mailbox)
       IN  /\ received' = Append(received, m)
           /\ mailbox' = SelectSeq(mailbox, LAMBDA x : x /= m)
           /\ launch_task(m)
    /\ NoNotify
    /\ UNCHANGED <<instr, doneOrder, sideVars, chanVars, loopVars, callerVars, rxOpen, lockVars, reply, outcome, startReply,
                   endReply, tasksVars, batchVars>>

\* One iteration of the loop Subsystem::start spawns for S.
start ==
    /\ rxOpen["S"]
    /\ mailbox /= <<>>
    /\ LET m == recv(mailbox)
       IN  /\ received' = Append(received, m)
           /\ mailbox' = SelectSeq(mailbox, LAMBDA x : x /= m)
           /\ launch_task(m)
    /\ NoNotify
    /\ UNCHANGED <<instr, doneOrder, sideVars, chanVars, loopVars, callerVars, rxOpen, lockVars, reply, outcome, startReply,
                   endReply, tasksVars, batchVars>>

\* ------------------------------------------------ subsystem_run_task
\* SubsystemRef<TasksSubsystem>::send of an instrumentation message: queued on
\* T's mailbox, or dropped (its oneshot closes) when T's receiver is gone.
TasksSent(i) == IF rxOpen["T"] THEN Append(tmailbox, i) ELSE tmailbox

TasksReply == IF rxOpen["T"] THEN "empty" ELSE "closed"

\* An instrumentation message S's run of message m sends (by: the subsystem
\* whose dispatch sent it).
Instr(kind, m, d) ==
    [kind |-> kind, id |-> m, name |-> sent[m].name, end |-> d, by |-> "S"]

\* Which Start message the flags select ("none": no instrumentation).
StartKind(t) ==
    IF t.log /\ ~t.benchmark THEN "StartTask"
    ELSE IF t.benchmark THEN "StartBenchmark"
    ELSE "none"

\* Faulty variant, for comparison: the End message follows the log flag
\* first.
EndKind_logFirst(t) ==
    IF t.log THEN "EndTask"
    ELSE IF t.benchmark THEN "EndBenchmark"
    ELSE "none"

EndKind(t) ==
    IF t.log /\ ~t.benchmark THEN "EndTask"
    ELSE IF t.benchmark THEN "EndBenchmark"
    ELSE "none"

\* Faulty variant, for comparison: start_quiet hands its tasks a Tasks ref too.
TasksArg_loud(sub) == "Some"

\* The `tasks` argument the loop of a subsystem passes to launch_task:
\* Some(tasks.clone()) from start, None from start_quiet.
TasksArg(sub) == IF sub = "S" THEN "Some" ELSE "None"

\* `if let Some(tasks) = tasks.as_ref()`: without a Tasks ref a run sends no
\* instrumentation, whatever the task's flags.
RunStartKind(sub, t) == IF TasksArg(sub) = "Some" THEN StartKind(t) ELSE "none"

RunEndKind(sub, t) == IF TasksArg(sub) = "Some" THEN EndKind(t) ELSE "none"

\* Faulty variant, for comparison: the Start message is sent and its handle not awaited.
run_task_begin_unawaited(m) ==
    /\ pc[m] = "spawned"
    /\ IF StartKind(sent[m]) = "none"
       THEN UNCHANGED <<tmailbox, startReply, instr>>
       ELSE /\ tmailbox' = TasksSent(Instr(StartKind(sent[m]), m, 0))
            /\ startReply' = [startReply EXCEPT ![m] = "dropped"]
            /\ instr' = [instr EXCEPT ![m] = Append(@, StartKind(sent[m]))]
    /\ pc' = [pc EXCEPT ![m] = "wantLock"]
    /\ NoNotify
    /\ UNCHANGED <<lane, doneOrder, sideVars, chanVars, loopVars, callerVars, mailbox, received, rxOpen, lockVars, reply,
                   outcome, endReply, tspawned, taskLog, benchLog, batchVars>>

\* Lines 391-413, to the await of the Start handle.
run_task_begin(m) ==
    /\ pc[m] = "spawned"
    /\ IF RunStartKind("S", sent[m]) = "none"
       THEN /\ pc' = [pc EXCEPT ![m] = "wantLock"]
            /\ UNCHANGED <<tmailbox, startReply, instr>>
       ELSE /\ tmailbox' = TasksSent(Instr(RunStartKind("S", sent[m]), m, 0))
            /\ startReply' = [startReply EXCEPT ![m] = TasksReply]
            /\ instr' = [instr EXCEPT ![m] = Append(@, RunStartKind("S", sent[m]))]
            /\ pc' = [pc EXCEPT ![m] = "awaitStart"]
    /\ NoNotify
    /\ UNCHANGED <<lane, doneOrder, sideVars, chanVars, loopVars, callerVars, mailbox, received, rxOpen, lockVars, reply,
                   outcome, endReply, tspawned, taskLog, benchLog, batchVars>>

\* What `.await?` on the Start handle does with its result: go on to execute,
\* or return the error, dropping the task message unexecuted.
AfterStart(r) == IF r = "ok" THEN "wantLock" ELSE "failed"

run_task_started(m) ==
    /\ pc[m] = "awaitStart"
    /\ startReply[m] \in {"ok", "closed"}
    /\ pc' = [pc EXCEPT ![m] = AfterStart(startReply[m])]
    /\ IF AfterStart(startReply[m]) = "failed"
       THEN /\ reply' = [reply EXCEPT ![m] = DropSender(reply[m])]
            /\ Notify(<<m>>)
       ELSE /\ UNCHANGED reply
            /\ NoNotify
    /\ UNCHANGED <<runVars, sideVars, chanVars, loopVars, callerVars, mailbox, received, rxOpen, lockVars, outcome,
                   startReply, endReply, tasksVars, batchVars>>

\* ------------------------------------------- SubsystemMessage::execute
\* tokio's RwLock is fair: the waiting calls are served oldest first, and a
\* waiting lock() keeps later read() calls from passing it.
\* ArcLock::read: a shared guard, granted at once while no writer holds the
\* lock and no call waits.
CanRead == lockW = 0 /\ lockQueue = <<>>

\* Faulty variant, for comparison: the exclusive guard is granted while readers hold the lock.
CanLock_readers == lockW = 0 /\ lockQueue = <<>>

\* ArcLock::lock: the exclusive guard, granted at once while nobody holds the
\* lock and no call waits.
CanLock == lockW = 0 /\ lockR = {} /\ lockQueue = <<>>

Waiter(m, isMut) == [id |-> m, mut |-> isMut]

\* Faulty variant, for comparison: a released lock is handed to the oldest
\* waiting call whatever guards are still held.
Grantable_any(w, r, x) == w = 0

\* Whether the oldest waiting call x gets its guard when the lock is held by
\* writer w (0: none) and the readers r.
Grantable(w, r, x) == IF x.mut THEN w = 0 /\ r = {} ELSE w = 0

\* A guard was dropped: the waiting calls are served from the oldest on, as
\* long as the one at the head can be granted.
RECURSIVE Grant(_, _, _)
Grant(w, r, q) ==
    IF q = <<>> \/ ~Grantable(w, r, Head(q))
    THEN [w |-> w, r |-> r, q |-> q]
    ELSE IF Head(q).mut
         THEN Grant(Head(q).id, r, Tail(q))
         ELSE Grant(w, r \cup {Head(q).id}, Tail(q))

\* read().await / lock().await by m: the guard at once, or m waits in line.
Acquire(m, isMut) ==
    IF isMut
    THEN IF CanLock
         THEN lockW' = m /\ UNCHANGED <<lockR, lockQueue>>
         ELSE lockQueue' = Append(lockQueue, Waiter(m, isMut)) /\ UNCHANGED <<lockW, lockR>>
    ELSE IF CanRead
         THEN lockR' = lockR \cup {m} /\ UNCHANGED <<lockW, lockQueue>>
         ELSE lockQueue' = Append(lockQueue, Waiter(m, isMut)) /\ UNCHANGED <<lockW, lockR>>

\* Faulty variant, for comparison: a dropped guard wakes no waiting call.
Release_noWake(m) ==
    /\ lockW' = IF lockW = m THEN 0 ELSE lockW
    /\ lockR' = lockR \ {m}
    /\ lockQueue' = lockQueue

\* The guard of m is dropped.
Release(m) ==
    LET g == Grant(IF lockW = m THEN 0 ELSE lockW, lockR \ {m}, lockQueue)
    IN  /\ lockW' = g.w
        /\ lockR' = g.r
        /\ lockQueue' = g.q

\* Faulty variant, for comparison: ArcLock::clone copies the value: a write through the guard of one
\* clone is lost to the others.
WriteThrough_copy(old, new) == old

\* The clones of an ArcLock share one value (Arc::clone): what a write guard
\* of the task's clone wrote is the value every clone holds.
WriteThrough(old, new) == new

\* Faulty variant, for comparison: a task asks for its guard only after the
\* tasks of all earlier messages left execute.
execute_lock_inOrder(m) ==
    /\ pc[m] = "wantLock"
    /\ \A k \in 1..(m - 1) : pc[k] \in {"post", "awaitEnd", "done", "failed", "aborted", "dropped"}
    /\ Acquire(m, sent[m].is_mut)
    /\ pc' = [pc EXCEPT ![m] = IF lockW' = m \/ m \in lockR' THEN "body" ELSE "waitLock"]
    /\ NoNotify
    /\ UNCHANGED <<runVars, sideVars, chanVars, loopVars, callerVars, mailbox, received, rxOpen, counter, reply,
                   outcome, startReply, endReply, tasksVars, batchVars>>

\* execute to the guard: the task has it at once, or waits for it.
execute_lock(m) ==
    /\ pc[m] = "wantLock"
    /\ Acquire(m, sent[m].is_mut)
    /\ pc' = [pc EXCEPT ![m] = IF lockW' = m \/ m \in lockR' THEN "body" ELSE "waitLock"]
    /\ NoNotify
    /\ UNCHANGED <<runVars, sideVars, chanVars, loopVars, callerVars, mailbox, received, rxOpen, counter, reply,
                   outcome, startReply, endReply, tasksVars, batchVars>>

\* Faulty variant, for comparison: an error Output is not sent; the sender is
\* dropped instead.
Replied_okOnly(v) == IF v = TaskExecutionError THEN Closed ELSE Value(v)

\* The oneshot after sender.send(v).
Replied(v) == Value(v)

\* sender.send(task_result) on the oneshot r: with the receiver gone the value
\* comes back in the Err and is dropped.
SendReply(r, v) == IF r = Orphaned THEN Orphaned ELSE Replied(v)

\* Faulty variant, for comparison: a failed reply send is returned as the
\* error of execute.
AfterReply_strict(r) == IF r = Orphaned THEN "failed" ELSE "replied"

\* `if let Err(_err) = send_result { error!(..) }`: a failed reply send is
\* logged and execute goes on to return Ok(()).
AfterReply(r) == "replied"

\* Faulty variant, for comparison: execute returns without sending the result on the reply channel.
execute_body_silent(m) ==
    /\ pc[m] = "body"
    /\ counter' = WriteThrough(counter, BodyEffect(sent[m], counter))
    /\ outcome' = [outcome EXCEPT ![m] = Value(BodyOutput(sent[m], counter))]
    /\ pc' = [pc EXCEPT ![m] = "replied"]
    /\ doneOrder' = Append(doneOrder, m)
    /\ NoNotify
    /\ UNCHANGED <<instr, lane, sideVars, chanVars, loopVars, callerVars, mailbox, received, rxOpen, lockW, lockR,
                   lockQueue, reply, startReply, endReply, tasksVars, batchVars>>

\* The task's execute body completes and its result goes to the reply
\* channel; the guard is still held.
execute_body(m) ==
    /\ pc[m] = "body"
    /\ counter' = WriteThrough(counter, BodyEffect(sent[m], counter))
    /\ outcome' = [outcome EXCEPT ![m] = Value(BodyOutput(sent[m], counter))]
    /\ reply' = [reply EXCEPT ![m] = SendReply(reply[m], BodyOutput(sent[m], counter))]
    /\ Notify(<<m>>)
    /\ pc' = [pc EXCEPT ![m] = AfterReply(reply[m])]
    /\ doneOrder' = Append(doneOrder, m)
    /\ UNCHANGED <<instr, lane, sideVars, chanVars, loopVars, callerVars, mailbox, received, rxOpen, lockW, lockR,
                   lockQueue, startReply, endReply, tasksVars, batchVars>>

\* Faulty variant, for comparison: the guard of an aborted body is leaked.
Unwind_leak(m) == UNCHANGED <<lockW, lockR, lockQueue>>

\* The locals of execute are dropped as its future is: the guard is released.
Unwind(m) == Release(m)

\* The task's execute body aborts (panics) before it changed the state: the
\* spawned task unwinds, dropping the guard and the message with its reply
\* sender; subsystem_run_task does not go on to the End message.
execute_abort(m) ==
    /\ pc[m] = "body"
    /\ MayAbort(sent[m])
    /\ Unwind(m)
    /\ pc' = [k \in 1..Len(pc) |->
                IF k = m THEN "aborted"
                ELSE IF pc[k] = "waitLock" /\ (lockW' = k \/ k \in lockR') THEN "body"
                ELSE pc[k]]
    /\ reply' = [reply EXCEPT ![m] = DropSender(reply[m])]
    /\ Notify(<<m>>)
    /\ UNCHANGED <<runVars, sideVars, chanVars, loopVars, callerVars, mailbox, received, rxOpen, counter,
                   outcome, startReply, endReply, tasksVars, batchVars>>

\* execute returns: the guard goes out of scope.
execute_return(m) ==
    /\ pc[m] = "replied"
    /\ Release(m)
    /\ pc' = [k \in 1..Len(pc) |->
                IF k = m THEN "post"
                ELSE IF pc[k] = "waitLock" /\ (lockW' = k \/ k \in lockR') THEN "body"
                ELSE pc[k]]
    /\ NoNotify
    /\ UNCHANGED <<runVars, sideVars, chanVars, loopVars, callerVars, mailbox, received, rxOpen, counter, reply,
                   outcome, startReply, endReply, tasksVars, batchVars>>

\* Lines 419-443: the End message, with the elapsed time d. The EndTask
\* handle is not awaited: it is dropped as soon as send returns.
run_task_end(m) ==
    /\ pc[m] = "post"
    /\ \E d \in 1..MaxElapsed :
        IF RunEndKind("S", sent[m]) = "none"
        THEN /\ pc' = [pc EXCEPT ![m] = "done"]
             /\ UNCHANGED <<tmailbox, endReply, instr>>
        ELSE /\ tmailbox' = TasksSent(Instr(RunEndKind("S", sent[m]), m, d))
             /\ instr' = [instr EXCEPT ![m] = Append(@, RunEndKind("S", sent[m]))]
             /\ IF RunEndKind("S", sent[m]) = "EndTask"
                THEN /\ endReply' = [endReply EXCEPT ![m] = "dropped"]
                     /\ pc' = [pc EXCEPT ![m] = "done"]
                ELSE /\ endReply' = [endReply EXCEPT ![m] = TasksReply]
                     /\ pc' = [pc EXCEPT ![m] = "awaitEnd"]
    /\ NoNotify
    /\ UNCHANGED <<lane, doneOrder, sideVars, chanVars, loopVars, callerVars, mailbox, received, rxOpen, lockVars, reply,
                   outcome, startReply, tspawned, taskLog, benchLog, batchVars>>

\* `.await?` on the EndBenchmark handle: an error is returned to launch_task,
\* which logs it.
run_task_ended(m) ==
    /\ pc[m] = "awaitEnd"
    /\ endReply[m] \in {"ok", "closed"}
    /\ pc' = [pc EXCEPT ![m] = "done"]
    /\ NoNotify
    /\ UNCHANGED <<runVars, sideVars, chanVars, loopVars, callerVars, mailbox, received, rxOpen, lockVars, reply,
                   outcome, startReply, endReply, tasksVars, batchVars>>

\* ------------------------------------------------ the Tasks subsystem
HasId(log, id) == \E i \in 1..Len(log) : log[i].id = id

HasName(log, name) == \E i \in 1..Len(log) : log[i].name = name

\* chrono::format_duration, kept as a function of the duration.
format_duration(d) == <<"fmt", d>>

\* Faulty variant, for comparison: the StartTask handler replies without
\* inserting the entry.
start_task_lost(log, task) == log

\* entry(id).or_insert(task)
start_task(log, task) == IF HasId(log, task.id) THEN log ELSE Append(log, task)

\* Faulty variant, for comparison: the ended entry is taken out of the map
\* and put back at its end.
end_task_reinserted(log, id, time) ==
    SelectSeq(log, LAMBDA e : e.id /= id) \o
    [i \in 1..Len(SelectSeq(log, LAMBDA e : e.id = id)) |->
        [SelectSeq(log, LAMBDA e : e.id = id)[i] EXCEPT
            !.complete = TRUE, !.duration = time, !.display = format_duration(time)]]

\* entry(id).and_modify(..)
end_task(log, id, time) ==
    [i \in 1..Len(log) |->
        IF log[i].id = id
        THEN [log[i] EXCEPT !.complete = TRUE, !.duration = time,
                            !.display = format_duration(time)]
        ELSE log[i]]

\* Faulty variant, for comparison: entry(name).insert: a repeated start
\* replaces the accumulator.
start_benchmark_reset(log, bench) ==
    IF HasName(log, bench.name)
    THEN [i \in 1..Len(log) |-> IF log[i].name = bench.name THEN bench ELSE log[i]]
    ELSE Append(log, bench)

\* entry(name).or_insert(benchmark)
start_benchmark(log, bench) ==
    IF HasName(log, bench.name) THEN log ELSE Append(log, bench)

Min(a, b) == IF a < b THEN a ELSE b

Max(a, b) == IF a > b THEN a ELSE b

\* average = run_time / runs is kept as the exact fraction.
end_benchmark(log, name, time) ==
    [i \in 1..Len(log) |->
        IF log[i].name = name
        THEN [log[i] EXCEPT !.duration = time, !.start = time,
                            !.run_time = log[i].run_time + time,
                            !.runs = log[i].runs + 1,
                            !.average = <<log[i].run_time + time, log[i].runs + 1>>,
                            !.max = Max(time, log[i].max),
                            !.min = Min(time, log[i].min),
                            !.display = format_duration(time)]
        ELSE log[i]]

\* StartTask::execute builds the log entry.
NewTaskLog(i) ==
    [id |-> i.id, name |-> i.name, complete |-> FALSE, start |-> 0,
     duration |-> 0, display |-> <<"Exec...", 0>>]

\* Faulty variant, for comparison: the accumulator's min starts at 0.
NewBenchmarkLog_zeroMin(i) ==
    [name |-> i.name, start |-> 0, duration |-> 0, average |-> <<0, 1>>,
     runs |-> 0, run_time |-> 0, display |-> <<i.name, 0>>, max |-> 0,
     min |-> 0]

\* StartBenchmark::execute builds the accumulator.
NewBenchmarkLog(i) ==
    [name |-> i.name, start |-> 0, duration |-> 0, average |-> <<0, 1>>,
     runs |-> 0, run_time |-> 0, display |-> <<i.name, 0>>, max |-> 0,
     min |-> F64_MAX]

\* The instrumentation messages as Task types: all read-only, log left at its
\* default except StartBenchmark, which switches it off.
InstrTask(kind) == TaskOf(kind, FALSE, kind /= "StartBenchmark", FALSE, FALSE, 0)

\* What T's own run of the instrumentation message i sends to the Tasks
\* subsystem (itself) around the task's execute.
SelfInstr(i) ==
    LET sk == RunStartKind("T", InstrTask(i.kind))
        ek == RunEndKind("T", InstrTask(i.kind))
        msg(k) == [kind |-> k, id |-> i.id, name |-> i.kind, end |-> 0, by |-> "T"]
    IN  (IF sk = "none" THEN <<>> ELSE <<msg(sk)>>) \o
        (IF ek = "none" THEN <<>> ELSE <<msg(ek)>>)

\* One iteration of the loop Subsystem::start_quiet spawns for T.
start_quiet ==
    /\ rxOpen["T"]
    /\ tmailbox /= <<>>
    /\ tspawned' = tspawned \cup {Head(tmailbox)}
    /\ tmailbox' = Tail(tmailbox)
    /\ NoNotify
    /\ UNCHANGED <<runVars, sideVars, chanVars, loopVars, callerVars, pc, mailbox, received, rxOpen, lockVars, reply,
                   outcome, startReply, endReply, taskLog, benchLog, batchVars>>

\* A launched instrumentation task runs on T: subsystem_run_task without a
\* Tasks ref, the read guard on T's state (T has no mutable tasks, so it is
\* always granted), the handler under its map's mutex, and the reply. The
\* reply to an EndTask fails (its handle was dropped) and is only logged.
tasks_execute(i) ==
    /\ i \in tspawned
    /\ tspawned' = tspawned \ {i}
    /\ taskLog' = CASE i.kind = "StartTask" -> start_task(taskLog, NewTaskLog(i))
                    [] i.kind = "EndTask" -> end_task(taskLog, i.id, i.end)
                    [] OTHER -> taskLog
    /\ benchLog' = CASE i.kind = "StartBenchmark" ->
                            start_benchmark(benchLog, NewBenchmarkLog(i))
                     [] i.kind = "EndBenchmark" ->
                            end_benchmark(benchLog, i.name, i.end)
                     [] OTHER -> benchLog
    /\ startReply' = IF i.kind \in {"StartTask", "StartBenchmark"}
                     THEN [startReply EXCEPT ![i.id] = "ok"]
                     ELSE startReply
    /\ endReply' = IF i.kind = "EndBenchmark"
                   THEN [endReply EXCEPT ![i.id] = "ok"]
                   ELSE endReply
    /\ tmailbox' = IF rxOpen["T"] THEN tmailbox \o SelfInstr(i) ELSE tmailbox
    /\ NoNotify
    /\ UNCHANGED <<runVars, sideVars, chanVars, loopVars, callerVars, pc, mailbox, received, rxOpen, lockVars, reply,
                   outcome, batchVars>>

\* ------------------------------------------------ senders and loop end
\* The task runs of S that have not returned: each owns a clone of the Tasks
\* ref its loop made for it.
InFlight ==
    {m \in Msgs : pc[m] \in {"spawned", "awaitStart", "wantLock", "waitLock", "body",
                              "replied", "post", "awaitEnd"}}

\* The senders of a subsystem's mailbox: the caller's refs and, for the Tasks
\* subsystem, the ref S's loop owns and the clones its task runs own.
Senders(sub) ==
    IF sub = "S" THEN refs["S"]
    ELSE refs["T"] + (IF rxOpen["S"] THEN 1 ELSE 0) + Cardinality(InFlight)

QueueOf(sub) == IF sub = "S" THEN mailbox ELSE tmailbox

\* A SubsystemRef the caller holds goes out of scope.
drop_ref(sub) ==
    /\ caller = "detached"
    /\ refs[sub] > 0
    /\ refs' = [refs EXCEPT ![sub] = @ - 1]
    /\ NoNotify
    /\ UNCHANGED <<runVars, sideVars, chanVars, callerVars, pc, mailbox, received, rxOpen, lockVars, reply,
                   outcome, startReply, endReply, tasksVars, batchVars, stopped>>

\* Faulty variant, for comparison: the loop ends as soon as its queue is empty.
loop_stopped_idle(sub) ==
    /\ rxOpen[sub]
    /\ QueueOf(sub) = <<>>
    /\ stopped' = [stopped EXCEPT ![sub] = TRUE]
    /\ rxOpen' = [rxOpen EXCEPT ![sub] = FALSE]
    /\ NoNotify
    /\ UNCHANGED <<runVars, sideVars, chanVars, callerVars, pc, mailbox, received, lockVars, reply, outcome,
                   startReply, endReply, tasksVars, batchVars, refs>>

\* recv returns None (every sender dropped and nothing queued): the while
\* loop ends, "Subsystem stopped!" is logged and the receiver goes with the
\* loop's future.
loop_stopped(sub) ==
    /\ rxOpen[sub]
    /\ Senders(sub) = 0
    /\ QueueOf(sub) = <<>>
    /\ stopped' = [stopped EXCEPT ![sub] = TRUE]
    /\ rxOpen' = [rxOpen EXCEPT ![sub] = FALSE]
    /\ NoNotify
    /\ UNCHANGED <<runVars, sideVars, chanVars, callerVars, pc, mailbox, received, lockVars, reply, outcome,
                   startReply, endReply, tasksVars, batchVars, refs>>

\* ------------------------------------------------ a receiver is dropped
\* The receiving half of a mailbox is dropped (its loop is torn down with the
\* runtime, or was never started): the channel closes and the queued messages
\* are dropped, each with its reply sender. Launched tasks go on.
receiver_dropped_S ==
    /\ rxOpen["S"]
    /\ rxOpen' = [rxOpen EXCEPT !["S"] = FALSE]
    /\ mailbox' = <<>>
    /\ pc' = [m \in 1..Len(pc) |-> IF pc[m] = "queued" THEN "dropped" ELSE pc[m]]
    /\ reply' = [m \in 1..Len(reply) |->
                    IF pc[m] = "queued" THEN DropSender(reply[m]) ELSE reply[m]]
    /\ Notify(mailbox)
    /\ UNCHANGED <<runVars, sideVars, chanVars, loopVars, callerVars, received, lockVars, outcome, startReply,
                   endReply, tasksVars, batchVars>>

receiver_dropped_T ==
    /\ rxOpen["T"]
    /\ rxOpen' = [rxOpen EXCEPT !["T"] = FALSE]
    /\ tmailbox' = <<>>
    /\ startReply' = [m \in 1..Len(startReply) |->
                        IF \E k \in 1..Len(tmailbox) :
                              tmailbox[k].id = m /\ tmailbox[k].kind \in {"StartTask", "StartBenchmark"}
                        THEN "closed" ELSE startReply[m]]
    /\ endReply' = [m \in 1..Len(endReply) |->
                        IF \E k \in 1..Len(tmailbox) :
                              tmailbox[k].id = m /\ tmailbox[k].kind = "EndBenchmark"
                        THEN "closed" ELSE endReply[m]]
    /\ NoNotify
    /\ UNCHANGED <<runVars, sideVars, chanVars, loopVars, callerVars, pc, mailbox, received, lockVars, reply, outcome,
                   tspawned, taskLog, benchLog, batchVars>>

\* ------------------------------------------------------ TaskHandle
\* Faulty variant, for comparison: a closed reply channel is reported as a value.
TaskHandle_poll_default(r) ==
    CASE r.tag = "value" -> Ok(r.val)
      [] r.tag = "closed" -> Ok(0)
      [] OTHER -> Pending

\* TaskHandle::poll on the oneshot receiver.
TaskHandle_poll(r) ==
    CASE r.tag = "value" -> Ok(r.val)
      [] r.tag = "closed" -> Cancelled
      [] OTHER -> Pending

\* The caller awaits the handle of a message it sent with send / send_mut;
\* a poll that returns Pending changes nothing.
poll(m) ==
    /\ m \notin SeqToSet(batchMembers)
    /\ handle[m] = Pending
    /\ TaskHandle_poll(reply[m]) /= Pending
    /\ handle' = [handle EXCEPT ![m] = TaskHandle_poll(reply[m])]
    /\ NoNotify
    /\ UNCHANGED <<runVars, sideVars, chanVars, loopVars, caller, sent, pc, mailbox, received, rxOpen, lockVars, reply,
                   outcome, startReply, endReply, tasksVars, batchVars>>

\* The caller drops the handle of a message it sent with send / send_mut
\* before the handle resolved: the oneshot receiver goes with it.
drop_handle(m) ==
    /\ caller = "detached"
    /\ handle[m] = Pending
    /\ handle' = [handle EXCEPT ![m] = Dropped]
    /\ reply' = [reply EXCEPT ![m] = IF reply[m] = Empty THEN Orphaned ELSE reply[m]]
    /\ NoNotify
    /\ UNCHANGED <<runVars, sideVars, chanVars, loopVars, caller, sent, pc, mailbox, received, rxOpen, lockVars,
                   outcome, startReply, endReply, tasksVars, batchVars>>

\* ------------------------------------------------------ BatchHandle
\* `let mut results = Vec::new()`: what the results list is when a poll call
\* takes its next handle from the ready-to-run queue.
ResultsAtPoll == IF batchState = "idle" THEN <<>> ELSE pollResults

\* One turn of the while loop of BatchHandle::poll: poll_next polls the handle
\* at the head of the ready-to-run queue; a ready one is yielded and pushed on
\* results, a pending one keeps its waker.
batch_poll_next ==
    /\ batchState \in {"idle", "polling"}
    /\ readyQueue /= <<>>
    /\ LET m == Head(readyQueue)
           r == TaskHandle_poll(reply[m])
       IN  /\ readyQueue' = Tail(readyQueue)
           /\ IF r = Pending
              THEN /\ wakers' = wakers \cup {m}
                   /\ pollResults' = ResultsAtPoll
                   /\ UNCHANGED <<batchHandles, handle>>
              ELSE /\ wakers' = wakers
                   /\ pollResults' = Append(ResultsAtPoll, r)
                   /\ batchHandles' = batchHandles \ {m}
                   /\ handle' = [handle EXCEPT ![m] = r]
    /\ batchState' = "polling"
    /\ UNCHANGED <<runVars, sideVars, chanVars, loopVars, caller, sent, pc, mailbox, received, rxOpen, lockVars,
                   reply, outcome, startReply, endReply, tasksVars,
                   batchMembers, batchOut>>

\* The while loop ends (nothing left to run): Ready(results) when the set of
\* handles is empty, else Pending, and the results of this call are dropped.
batch_poll_return ==
    /\ readyQueue = <<>>
    /\ \/ batchState = "polling"
       \/ batchState = "idle" /\ batchHandles = {}
    /\ IF batchHandles = {}
       THEN /\ batchState' = "ready"
            /\ batchOut' = ResultsAtPoll
       ELSE /\ batchState' = "idle"
            /\ UNCHANGED batchOut
    /\ pollResults' = <<>>
    /\ NoNotify
    /\ UNCHANGED <<runVars, sideVars, chanVars, loopVars, callerVars, pc, mailbox, received, rxOpen, lockVars, reply,
                   outcome, startReply, endReply, tasksVars, batchMembers,
                   batchHandles>>

\* ------------------------------------------------------------- Channels
\* The registry a Channels object sees: the map in the cell it points to.
Registry(c) == chanHeap[chanPtr[c]]

\* ArcLock::lock_sync (try_write): granted only when nobody holds the lock.
lock_sync(l) == ~l.w /\ l.r = 0

\* ArcLock::read_sync (try_read): granted unless a writer holds the lock.
read_sync(l) == ~l.w

\* Faulty variant, for comparison: cloning an ArcLock copies the value into a
\* cell of its own.
ArcLock_clone_fresh(p, fresh) == fresh

\* ArcLock::clone is Arc::clone: the clone points to the same cell (fresh is
\* the next unused cell, which stays unused).
ArcLock_clone(p, fresh) == p

\* #[derive(Clone)] on Channels: the `channels` ArcLock is cloned.
Channels_clone(c) ==
    LET fresh == Len(chanHeap) + 1
        q == ArcLock_clone(chanPtr[c], fresh)
    IN  /\ Len(chanPtr) < MaxClones
        /\ chanPtr' = Append(chanPtr, q)
        /\ chanHeap' = IF q = fresh THEN Append(chanHeap, Registry(c)) ELSE chanHeap
        /\ chanLock' = IF q = fresh THEN Append(chanLock, Unlocked) ELSE chanLock
        /\ UNCHANGED <<sideVars, runtimeVars, chanThread, chanAdded, chanInbox>>

\* Faulty variant, for comparison: add takes the lock with lock().await and
\* waits while it is held.
add_begin_waiting(t, c, ty, k) ==
    /\ chanThread[t].phase = "idle"
    /\ Len(chanAdded[ty]) < MaxAdds
    /\ lock_sync(chanLock[chanPtr[c]])
    /\ chanLock' = [chanLock EXCEPT ![chanPtr[c]].w = TRUE]
    /\ chanThread' = [chanThread EXCEPT ![t] =
            [phase |-> "adding", c |-> c, ty |-> ty, box |-> k,
             tag |-> "none", last |-> 0]]
    /\ UNCHANGED <<sideVars, runtimeVars, chanPtr, chanHeap, chanAdded, chanInbox>>

\* Channels::add to the insert: lock_sync on the map; when it fails the call
\* returns without registering anything.
add_begin(t, c, ty, k) ==
    /\ chanThread[t].phase = "idle"
    /\ Len(chanAdded[ty]) < MaxAdds
    /\ IF lock_sync(chanLock[chanPtr[c]])
       THEN /\ chanLock' = [chanLock EXCEPT ![chanPtr[c]].w = TRUE]
            /\ chanThread' = [chanThread EXCEPT ![t] =
                    [phase |-> "adding", c |-> c, ty |-> ty, box |-> k,
                     tag |-> "none", last |-> 0]]
       ELSE /\ chanLock' = chanLock
            /\ chanThread' = [chanThread EXCEPT ![t] =
                    [phase |-> "idle", c |-> c, ty |-> ty, box |-> k,
                     tag |-> "skipped", last |-> 0]]
    /\ UNCHANGED <<sideVars, runtimeVars, chanPtr, chanHeap, chanAdded, chanInbox>>

\* HashMap::insert: the entry of the key is set, replacing an earlier one.
insert(reg, ty, k) == [reg EXCEPT ![ty] = k]

\* Channels::add from the insert: the entry is written and the guard dropped.
add_end(t) ==
    LET th == chanThread[t]
        p == chanPtr[th.c]
    IN  /\ th.phase = "adding"
        /\ chanHeap' = [chanHeap EXCEPT ![p] = insert(chanHeap[p], th.ty, th.box)]
        /\ chanLock' = [chanLock EXCEPT ![p].w = FALSE]
        /\ chanAdded' = [chanAdded EXCEPT ![th.ty] = Append(@, th.box)]
        /\ chanThread' = [chanThread EXCEPT ![t] = [th EXCEPT !.phase = "idle", !.tag = "added"]]
        /\ UNCHANGED <<sideVars, runtimeVars, chanPtr, chanInbox>>

\* The ref most recently inserted for a type (0: none was).
LastAdded(ty) ==
    IF chanAdded[ty] = <<>> THEN 0 ELSE chanAdded[ty][Len(chanAdded[ty])]

\* Channels::get to the lookup: read_sync on the map; when it fails the call
\* panics ("Failed to acquire read lock!").
get_begin(t, c, ty) ==
    /\ chanThread[t].phase = "idle"
    /\ IF read_sync(chanLock[chanPtr[c]])
       THEN /\ chanLock' = [chanLock EXCEPT ![chanPtr[c]].r = @ + 1]
            /\ chanThread' = [chanThread EXCEPT ![t] =
                    [phase |-> "getting", c |-> c, ty |-> ty, box |-> 0,
                     tag |-> "none", last |-> 0]]
       ELSE /\ chanLock' = chanLock
            /\ chanThread' = [chanThread EXCEPT ![t] =
                    [phase |-> "panicked", c |-> c, ty |-> ty, box |-> 0,
                     tag |-> "lock", last |-> LastAdded(ty)]]
    /\ UNCHANGED <<sideVars, runtimeVars, chanPtr, chanHeap, chanAdded, chanInbox>>

\* Faulty variant, for comparison: a missing entry yields the first ref.
lookup_default(reg, ty) ==
    IF reg[ty] = 0 THEN [tag |-> "ref", box |-> 1] ELSE [tag |-> "ref", box |-> reg[ty]]

\* channels_lock.get(&type_id).unwrap_or_else(|| panic!(..)), then the
\* downcast and the clone of the SubsystemRef (the same mailbox).
lookup(reg, ty) ==
    IF reg[ty] = 0 THEN [tag |-> "missing", box |-> 0] ELSE [tag |-> "ref", box |-> reg[ty]]

\* Channels::get from the lookup: the clone of the registered ref is
\* returned, or the call panics; either way the read guard is dropped.
get_end(t) ==
    LET th == chanThread[t]
        p == chanPtr[th.c]
        found == lookup(chanHeap[p], th.ty)
    IN  /\ th.phase = "getting"
        /\ chanLock' = [chanLock EXCEPT ![p].r = @ - 1]
        /\ chanThread' = [chanThread EXCEPT ![t] =
                [th EXCEPT !.phase = IF found.tag = "ref" THEN "got" ELSE "panicked",
                           !.tag = found.tag, !.box = found.box,
                           !.last = LastAdded(th.ty)]]
        /\ UNCHANGED <<sideVars, runtimeVars, chanPtr, chanHeap, chanAdded, chanInbox>>

\* A task is sent through the ref get returned: it lands in the mailbox the
\* ref addresses.
chan_send(t) ==
    LET th == chanThread[t]
    IN  /\ th.phase = "got"
        /\ chanInbox[th.ty][th.box] < MaxChanSends
        /\ chanInbox' = [chanInbox EXCEPT ![th.ty][th.box] = @ + 1]
        /\ chanThread' = [chanThread EXCEPT ![t] = [th EXCEPT !.phase = "idle", !.tag = "sent"]]
        /\ UNCHANGED <<sideVars, runtimeVars, chanPtr, chanHeap, chanLock, chanAdded>>

\* The thread's call is over (a returned ref is dropped, a panicked task is
\* replaced): it is free for the next call.
chan_return(t) ==
    /\ chanThread[t].phase \in {"got", "panicked"}
    /\ chanThread' = [chanThread EXCEPT ![t] = Idle]
    /\ UNCHANGED <<sideVars, runtimeVars, chanPtr, chanHeap, chanLock, chanAdded, chanInbox>>

ChanNext ==
    \/ \E c \in 1..Len(chanPtr) : Channels_clone(c)
    \/ \E t \in 1..MaxThreads, c \in 1..Len(chanPtr), ty \in ChanTypes, k \in 1..MaxBoxes :
          add_begin(t, c, ty, k)
    \/ \E t \in 1..MaxThreads : add_end(t)
    \/ \E t \in 1..MaxThreads, c \in 1..Len(chanPtr), ty \in ChanTypes :
          get_begin(t, c, ty)
    \/ \E t \in 1..MaxThreads : get_end(t)
    \/ \E t \in 1..MaxThreads : chan_send(t)
    \/ \E t \in 1..MaxThreads : chan_return(t)

\* A Channels and the threads that register and look up refs in it.
ChannelsInit == Init /\ caller = "sequential"

ChannelsSpec == ChannelsInit /\ [][ChanNext]_vars

\* ------------------------------------------- the benchmark accumulators
\* StartBenchmark for the name n reaches the Tasks subsystem's handler.
bench_start(n) ==
    /\ benchStarts[n] < MaxStarts
    /\ benchStarts' = [benchStarts EXCEPT ![n] = @ + 1]
    /\ benchLog' = start_benchmark(benchLog, NewBenchmarkLog([name |-> n]))
    /\ UNCHANGED <<dispatchVars, lockVars, tmailbox, tspawned, taskLog, chanVars,
                   benchSamples, arcVars, extraVars>>

\* EndBenchmark for the name n with the duration d reaches the handler; it
\* counts as a sample when the accumulator exists.
bench_end(n, d) ==
    /\ Len(benchSamples[n]) < MaxSamples
    /\ benchLog' = end_benchmark(benchLog, n, d)
    /\ benchSamples' = IF HasName(benchLog, n)
                       THEN [benchSamples EXCEPT ![n] = Append(@, d)]
                       ELSE benchSamples
    /\ UNCHANGED <<dispatchVars, lockVars, tmailbox, tspawned, taskLog, chanVars,
                   benchStarts, arcVars, extraVars>>

BenchNext ==
    \/ \E n \in BenchNames : bench_start(n)
    \/ \E n \in BenchNames, d \in 0..MaxDuration : bench_end(n, d)

BenchInit == Init /\ caller = "sequential"

\* The Tasks subsystem's benchmark handlers under every order of calls.
BenchSpec == BenchInit /\ [][BenchNext]_vars

\* ----------------------------------- the handlers of the Tasks subsystem
\* The handlers called directly, in every order and with every argument: the
\* task types of tasks.rs are public, and each handler runs under the mutex
\* of the map it uses.
LogIds == 1..MaxIds

\* What the closure of and_modify hands to display_fn: the clone of the
\* entry, its fields updated and its display not yet; nothing for a vacant
\* entry, for which the closure does not run.
TaskFormatterArgs(log, id, time) ==
    LET hit == SelectSeq(log, LAMBDA e : e.id = id)
    IN  [i \in 1..Len(hit) |-> [hit[i] EXCEPT !.complete = TRUE, !.duration = time]]

BenchFormatterArgs(log, name, time) ==
    LET new == end_benchmark(log, name, time)
        hits == {i \in 1..Len(log) : log[i].name = name}
    IN  IF hits = {} THEN <<>>
        ELSE LET i == CHOOSE j \in hits : TRUE
             IN  <<[new[i] EXCEPT !.display = log[i].display]>>

\* get_task_displays / get_benchmark_displays: name and display of every
\* entry, in map order.
get_displays(log) ==
    [i \in 1..Len(log) |-> [name |-> log[i].name, display |-> log[i].display]]

\* A call of a handler is recorded with its arguments, what its formatter
\* was applied to and what it returned.
Called(map, op, id, name, time, applied, value) ==
    /\ logCalls < MaxCalls
    /\ logCalls' = logCalls + 1
    /\ lastCall' = [lastCall EXCEPT ![map] =
            [n |-> logCalls + 1, op |-> op, id |-> id, name |-> name, time |-> time,
             applied |-> applied, result |-> <<"Ok">> \o value]]

\* Faulty variant, for comparison: insert(id, task): a repeated StartTask
\* replaces the entry.
StartTask_execute_reset(id, name) ==
    /\ Called("tasks", "start_task", id, name, 0, <<>>, <<>>)
    /\ taskLog' = IF HasId(taskLog, id)
                  THEN [i \in 1..Len(taskLog) |->
                            IF taskLog[i].id = id
                            THEN NewTaskLog([id |-> id, name |-> name])
                            ELSE taskLog[i]]
                  ELSE Append(taskLog, NewTaskLog([id |-> id, name |-> name]))
    /\ UNCHANGED <<dispatchVars, lockVars, tmailbox, tspawned, benchLog, chanVars,
                   benchCalls, arcVars, nestVars, mutexVars>>

StartTask_execute(id, name) ==
    /\ Called("tasks", "start_task", id, name, 0, <<>>, <<>>)
    /\ taskLog' = start_task(taskLog, NewTaskLog([id |-> id, name |-> name]))
    /\ UNCHANGED <<dispatchVars, lockVars, tmailbox, tspawned, benchLog, chanVars,
                   benchCalls, arcVars, nestVars, mutexVars>>

EndTask_execute(id, time) ==
    /\ Called("tasks", "end_task", id, "", time,
              TaskFormatterArgs(taskLog, id, time), <<>>)
    /\ taskLog' = end_task(taskLog, id, time)
    /\ UNCHANGED <<dispatchVars, lockVars, tmailbox, tspawned, benchLog, chanVars,
                   benchCalls, arcVars, nestVars, mutexVars>>

GetTaskDisplays_execute ==
    /\ Called("tasks", "get_task_displays", 0, "", 0, <<>>, <<get_displays(taskLog)>>)
    /\ UNCHANGED <<dispatchVars, lockVars, tasksVars, chanVars, benchCalls, arcVars,
                   nestVars, mutexVars>>

StartBenchmark_execute(name) ==
    /\ Called("benchmarks", "start_benchmark", 0, name, 0, <<>>, <<>>)
    /\ benchLog' = start_benchmark(benchLog, NewBenchmarkLog([name |-> name]))
    /\ UNCHANGED <<dispatchVars, lockVars, tmailbox, tspawned, taskLog, chanVars,
                   benchCalls, arcVars, nestVars, mutexVars>>

\* Faulty variant, for comparison: entry(name).or_insert(..) before the
\* update: an EndBenchmark for a name without accumulator creates one.
EndBenchmark_execute_upsert(name, time) ==
    /\ Called("benchmarks", "end_benchmark", 0, name, time,
              BenchFormatterArgs(benchLog, name, time), <<>>)
    /\ benchLog' = end_benchmark(
            start_benchmark(benchLog, NewBenchmarkLog([name |-> name])), name, time)
    /\ UNCHANGED <<dispatchVars, lockVars, tmailbox, tspawned, taskLog, chanVars,
                   benchCalls, arcVars, nestVars, mutexVars>>

EndBenchmark_execute(name, time) ==
    /\ Called("benchmarks", "end_benchmark", 0, name, time,
              BenchFormatterArgs(benchLog, name, time), <<>>)
    /\ benchLog' = end_benchmark(benchLog, name, time)
    /\ UNCHANGED <<dispatchVars, lockVars, tmailbox, tspawned, taskLog, chanVars,
                   benchCalls, arcVars, nestVars, mutexVars>>

LogNext ==
    \/ \E id \in LogIds, name \in BenchNames : StartTask_execute(id, name)
    \/ \E id \in LogIds, d \in 0..MaxDuration : EndTask_execute(id, d)
    \/ GetTaskDisplays_execute
    \/ \E name \in BenchNames : StartBenchmark_execute(name)
    \/ \E name \in BenchNames, d \in 0..MaxDuration : EndBenchmark_execute(name, d)

LogInit == Init /\ caller = "sequential"

LogSpec == LogInit /\ [][LogNext]_vars

\* ------------------------------- concurrent EndBenchmark tasks on T
\* The Tasks subsystem runs its tasks as concurrent shared tasks; each
\* handler takes the mutex of the map it uses (tokio::sync::Mutex: granted
\* when free, else the caller waits in line and is served oldest first),
\* and reads and writes the accumulator through the guard.
\* Faulty variant, for comparison: the map is behind a lock that admits
\* every caller at once.
Mutex_lock_shared(mx, h) == [holder |-> h, queue |-> mx.queue]

\* Mutex::lock by h.
Mutex_lock(mx, h) ==
    IF mx.holder = 0 /\ mx.queue = <<>>
    THEN [holder |-> h, queue |-> mx.queue]
    ELSE [holder |-> mx.holder, queue |-> Append(mx.queue, h)]

\* The guard is dropped: the oldest waiter gets the mutex.
Mutex_unlock(mx) ==
    IF mx.queue = <<>>
    THEN [holder |-> 0, queue |-> <<>>]
    ELSE [holder |-> Head(mx.queue), queue |-> Tail(mx.queue)]

\* The run of benchmark task h sends StartBenchmark for its name and awaits
\* it: the handler ran under the mutex.
handler_start(h, n) ==
    /\ handlers[h].phase = "idle"
    /\ benchMutex.holder = 0
    /\ benchLog' = start_benchmark(benchLog, NewBenchmarkLog([name |-> n]))
    /\ handlers' = [handlers EXCEPT ![h] = [@ EXCEPT !.phase = "started", !.name = n]]
    /\ UNCHANGED <<dispatchVars, lockVars, tmailbox, tspawned, taskLog, chanVars,
                   benchCalls, arcVars, logVars, nestVars, benchMutex>>

\* The task's body is over: its run sends EndBenchmark with the elapsed
\* time d, and T's loop launches the handler.
handler_end(h, d) ==
    /\ handlers[h].phase = "started"
    /\ handlers' = [handlers EXCEPT ![h] = [@ EXCEPT !.phase = "running", !.time = d]]
    /\ UNCHANGED <<dispatchVars, lockVars, tasksVars, chanVars,
                   benchCalls, arcVars, logVars, nestVars, benchMutex>>

\* `self.benchmarks.lock().await`
end_benchmark_lock(h) ==
    /\ handlers[h].phase = "running"
    /\ benchMutex' = Mutex_lock(benchMutex, h)
    /\ handlers' = [handlers EXCEPT ![h] =
            [@ EXCEPT !.phase = IF benchMutex'.holder = h THEN "locked" ELSE "waiting"]]
    /\ UNCHANGED <<dispatchVars, lockVars, tasksVars, chanVars,
                   benchCalls, arcVars, logVars, nestVars>>

\* entry(name): the closure of and_modify gets the accumulator as it is.
end_benchmark_load(h) ==
    /\ handlers[h].phase = "locked"
    /\ handlers' = [handlers EXCEPT ![h] =
            [@ EXCEPT !.phase = "loaded",
                      !.seen = SelectSeq(benchLog, LAMBDA b : b.name = handlers[h].name)]]
    /\ UNCHANGED <<dispatchVars, lockVars, tasksVars, chanVars,
                   benchCalls, arcVars, logVars, nestVars, benchMutex>>

\* The closure's assignments, computed from what it read, are in the map;
\* the guard is dropped and the handler returns Ok(()).
end_benchmark_store(h) ==
    LET me == handlers[h]
        new == end_benchmark(me.seen, me.name, me.time)
        mx == Mutex_unlock(benchMutex)
    IN  /\ me.phase = "loaded"
        /\ benchLog' = [i \in 1..Len(benchLog) |->
                            IF benchLog[i].name = me.name /\ new /= <<>>
                            THEN new[1] ELSE benchLog[i]]
        /\ benchMutex' = mx
        /\ handlers' = [k \in 1..MaxHandlers |->
                            IF k = h THEN [me EXCEPT !.phase = "done", !.seen = <<>>]
                            ELSE IF k = mx.holder /\ handlers[k].phase = "waiting"
                                 THEN [handlers[k] EXCEPT !.phase = "locked"]
                            ELSE handlers[k]]
        /\ UNCHANGED <<dispatchVars, lockVars, tmailbox, tspawned, taskLog, chanVars,
                       benchCalls, arcVars, logVars, nestVars>>

HandlersNext ==
    \/ \E h \in 1..MaxHandlers, n \in BenchNames : handler_start(h, n)
    \/ \E h \in 1..MaxHandlers, d \in 0..MaxDuration : handler_end(h, d)
    \/ \E h \in 1..MaxHandlers : end_benchmark_lock(h)
    \/ \E h \in 1..MaxHandlers : end_benchmark_load(h)
    \/ \E h \in 1..MaxHandlers : end_benchmark_store(h)

HandlersInit == Init /\ caller = "sequential"

HandlersSpec == HandlersInit /\ [][HandlersNext]_vars

\* ------------------------------------------------------- one ArcLock
Holds(c) == lockW' = c \/ c \in lockR'

\* The Arc cell the ArcLock of task c points to: task 1 holds the ArcLock that
\* ArcLock::new returned, every other task a clone of it.
ClonePtr(c) == IF c = 1 THEN 1 ELSE ArcLock_clone(1, c)

\* The value a task reaches through its ArcLock.
ValueOf(c) == lockCell[ClonePtr(c)]

\* The RwLock as try_read / try_write find it.
LockState == [w |-> lockW /= 0, r |-> Cardinality(lockR)]

\* What the tasks are after c dropped its guard: the calls that got theirs
\* return with it.
AfterRelease(c) ==
    [k \in 1..MaxClients |->
        IF k = c THEN "idle"
        ELSE IF lockClient[k] = "waitRead" /\ Holds(k) THEN "reading"
        ELSE IF lockClient[k] = "waitWrite" /\ Holds(k) THEN "writing"
        ELSE lockClient[k]]

\* The task c calls read().await (isMut = FALSE) or lock().await.
lock_request(c, isMut) ==
    /\ lockClient[c] = "idle"
    /\ Acquire(c, isMut)
    /\ lockClient' = [lockClient EXCEPT ![c] =
            IF Holds(c) THEN (IF isMut THEN "writing" ELSE "reading")
            ELSE (IF isMut THEN "waitWrite" ELSE "waitRead")]
    /\ lockOp' = [lockOp EXCEPT ![c] = IF isMut THEN "lock" ELSE "read"]
    /\ UNCHANGED <<dispatchVars, counter, tasksVars, chanVars, benchCalls, extraVars,
                   lockVal, lockCell, lockWritten>>

\* The task c drops the guard that read / lock / read_sync / lock_sync gave
\* it (the guard of write is dropped by write itself).
lock_release(c) ==
    /\ lockClient[c] \in {"reading", "writing"}
    /\ lockOp[c] /= "write"
    /\ Release(c)
    /\ lockClient' = AfterRelease(c)
    /\ UNCHANGED <<dispatchVars, counter, tasksVars, chanVars, benchCalls, extraVars,
                   lockOp, lockVal, lockCell, lockWritten>>

\* Faulty variant, for comparison: a refused attempt waits in line for the
\* guard.
Refuse_wait(c, isMut) ==
    /\ lockQueue' = Append(lockQueue, Waiter(c, isMut))
    /\ lockClient' = [lockClient EXCEPT ![c] = IF isMut THEN "waitWrite" ELSE "waitRead"]
    /\ UNCHANGED <<lockW, lockR>>

\* Err(err) => Err(anyhow!(..)): the call returns the error at once; nothing
\* was acquired and nothing waits.
Refuse(c, isMut) ==
    /\ lockClient' = [lockClient EXCEPT ![c] = "refused"]
    /\ UNCHANGED <<lockW, lockR, lockQueue>>

\* What try_read / try_write can answer. try_write needs the lock free;
\* try_read is refused while a writer holds the lock and granted while
\* nothing waits; with a lock() waiting behind readers either answer is
\* taken to be possible.
TryOutcomes(isMut) ==
    IF isMut THEN {lock_sync(LockState)}
    ELSE IF ~read_sync(LockState) THEN {FALSE}
    ELSE IF lockQueue = <<>> THEN {TRUE}
    ELSE BOOLEAN

\* The task c calls read_sync() (isMut = FALSE) or lock_sync().
try_request(c, isMut) ==
    /\ lockClient[c] = "idle"
    /\ lockOp' = [lockOp EXCEPT ![c] = IF isMut THEN "lock_sync" ELSE "read_sync"]
    /\ \E ok \in TryOutcomes(isMut) :
          IF ok
          THEN /\ lockW' = IF isMut THEN c ELSE lockW
               /\ lockR' = IF isMut THEN lockR ELSE lockR \cup {c}
               /\ lockQueue' = lockQueue
               /\ lockClient' = [lockClient EXCEPT ![c] =
                                    IF isMut THEN "writing" ELSE "reading"]
          ELSE Refuse(c, isMut)
    /\ UNCHANGED <<dispatchVars, counter, tasksVars, chanVars, benchCalls, extraVars,
                   lockVal, lockCell, lockWritten>>

\* The caller of read_sync / lock_sync goes on with the error.
try_failed(c) ==
    /\ lockClient[c] = "refused"
    /\ lockClient' = [lockClient EXCEPT ![c] = "idle"]
    /\ UNCHANGED <<dispatchVars, lockVars, tasksVars, chanVars, benchCalls, extraVars,
                   lockOp, lockVal, lockCell, lockWritten>>

\* ArcLock::write(val) to its guard: self.data.write().await.
write(c, v) ==
    /\ lockClient[c] = "idle"
    /\ Acquire(c, TRUE)
    /\ lockClient' = [lockClient EXCEPT ![c] = IF Holds(c) THEN "writing" ELSE "waitWrite"]
    /\ lockOp' = [lockOp EXCEPT ![c] = "write"]
    /\ lockVal' = [lockVal EXCEPT ![c] = v]
    /\ UNCHANGED <<dispatchVars, counter, tasksVars, chanVars, benchCalls, extraVars,
                   lockCell, lockWritten>>

\* Faulty variant, for comparison: the write guard is dropped as soon as the
\* assignment has begun.
GuardInStore_dropped(c) == Release(c)

\* The write guard stays with the task while it assigns through it.
GuardInStore(c) == UNCHANGED <<lockW, lockR, lockQueue>>

\* `*lock = val` (in write), or an assignment through the guard lock() or
\* lock_sync() returned: the first word of the value is stored.
store_begin(c, v) ==
    /\ lockClient[c] = "writing"
    /\ lockOp[c] = "write" => v = lockVal[c]
    /\ lockCell' = [lockCell EXCEPT ![ClonePtr(c)] = <<v, @[2]>>]
    /\ lockVal' = [lockVal EXCEPT ![c] = v]
    /\ lockClient' = [lockClient EXCEPT ![c] = "storing"]
    /\ GuardInStore(c)
    /\ UNCHANGED <<dispatchVars, counter, tasksVars, chanVars, benchCalls, extraVars,
                   lockOp, lockWritten>>

\* The second word is stored: the assignment is complete. write returns here
\* and its guard goes out of scope.
store_end(c) ==
    /\ lockClient[c] = "storing"
    /\ lockCell' = [lockCell EXCEPT ![ClonePtr(c)] = <<@[1], lockVal[c]>>]
    /\ lockWritten' = lockVal[c]
    /\ lockVal' = [lockVal EXCEPT ![c] = 0]
    /\ IF lockOp[c] = "write"
       THEN /\ Release(c)
            /\ lockClient' = AfterRelease(c)
       ELSE /\ lockClient' = [lockClient EXCEPT ![c] = "writing"]
            /\ UNCHANGED <<lockW, lockR, lockQueue>>
    /\ UNCHANGED <<dispatchVars, counter, tasksVars, chanVars, benchCalls, extraVars, lockOp>>

ArcLockNext ==
    \/ \E c \in 1..MaxClients, isMut \in BOOLEAN : lock_request(c, isMut)
    \/ \E c \in 1..MaxClients : lock_release(c)
    \/ \E c \in 1..MaxClients, isMut \in BOOLEAN : try_request(c, isMut)
    \/ \E c \in 1..MaxClients : try_failed(c)
    \/ \E c \in 1..MaxClients, v \in 1..MaxValue : write(c, v)
    \/ \E c \in 1..MaxClients, v \in 1..MaxValue : store_begin(c, v)
    \/ \E c \in 1..MaxClients : store_end(c)

ArcLockInit == Init /\ caller = "sequential"

\* The tasks of one subsystem contending for its ArcLock.
ArcLockSpec == ArcLockInit /\ [][ArcLockNext]_vars

\* ------------------------------------------- every combination of flags
\* A task type for each choice of access mode and of the log, benchmark and
\* io flags.
FlagTasks ==
    {TaskOf("Probe", isMut, log, benchmark, io, 1) :
        isMut \in BOOLEAN, log \in BOOLEAN, benchmark \in BOOLEAN, io \in BOOLEAN}

\* The task type that differs from t in `fn io() -> bool` only.
Twin(t) == [t EXCEPT !.io = ~t.io]

\* send / send_mut by a caller that sends a task and then, without awaiting
\* it, the same task with the other lane.
send_flagged(t) ==
    /\ caller = "concurrent"
    /\ Len(sent) < MaxFlagged
    /\ sent /= <<>> => t = Twin(sent[1])
    /\ Enqueue(<<t>>)
    /\ NoNotify
    /\ UNCHANGED <<doneOrder, sideVars, chanVars, loopVars, caller, received, rxOpen, lockVars, tasksVars, batchVars>>

FlagsNext ==
    \/ \E t \in FlagTasks : send_flagged(t)
    \/ start
    \/ \E m \in Msgs : run_task_begin(m)
    \/ \E m \in Msgs : run_task_started(m)
    \/ \E m \in Msgs : execute_lock(m)
    \/ \E m \in Msgs : execute_body(m)
    \/ \E m \in Msgs : execute_return(m)
    \/ \E m \in Msgs : run_task_end(m)
    \/ \E m \in Msgs : run_task_ended(m)
    \/ start_quiet
    \/ \E i \in tspawned : tasks_execute(i)
    \/ receiver_dropped_T
    \/ \E m \in Msgs : poll(m)

FlagsInit == Init /\ caller = "concurrent"

\* One subsystem serving a task type and its twin on the other lane, for
\* every combination of flags.
FlagsSpec == FlagsInit /\ [][FlagsNext]_vars

\* ------------------------------------- a body that awaits its own subsystem
\* A task whose execute body sends a mut task to the subsystem it runs on
\* and awaits the handle (`channels.get::<S>().send_mut(t).await?`), as a
\* shared and as an exclusive task.
Relay(isMut) == TaskOf("Relay", isMut, TRUE, FALSE, FALSE, 0)

\* The task a Relay body sends.
Relayed == Increment(1)

NestTasks == {Relay(FALSE), Relay(TRUE), Relayed}

Outer(m) == \E p \in nested : p[1] = m

Inner(m) == \E p \in nested : p[2] = m

\* The caller sends a Relay or a plain task, without awaiting.
send_nest(t) ==
    /\ caller = "concurrent"
    /\ Len(sent) - Cardinality(nested) < MaxConcurrent
    /\ Enqueue(<<t>>)
    /\ NoNotify
    /\ UNCHANGED <<doneOrder, sideVars, chanVars, loopVars, caller, received, rxOpen, lockVars, tasksVars, batchVars>>

\* The body of a Relay, holding its guard, calls send_mut on its own
\* subsystem: the inner message is queued on the mailbox the task came from.
execute_nested(m) ==
    /\ pc[m] = "body"
    /\ sent[m].name = "Relay"
    /\ ~Outer(m)
    /\ Enqueue(<<Relayed>>)
    /\ nested' = nested \cup {<<m, Len(sent) + 1>>}
    /\ NoNotify
    /\ UNCHANGED <<doneOrder, benchCalls, arcVars, logVars, mutexVars, chanVars, loopVars, caller,
                   received, rxOpen, lockVars, tasksVars, batchVars>>

\* What the Relay body returns from `.await?` on the inner handle: the
\* inner output, or the cancellation as its own error Output.
RelayOutput(r) == IF r = Cancelled THEN TaskExecutionError ELSE r.val

\* The await of the inner handle returns: the body completes and its result
\* goes to the reply channel.
execute_resumed(m) ==
    /\ pc[m] = "body"
    /\ \E p \in nested :
        /\ p[1] = m
        /\ handle[p[2]] = Pending
        /\ TaskHandle_poll(reply[p[2]]) /= Pending
        /\ handle' = [handle EXCEPT ![p[2]] = TaskHandle_poll(reply[p[2]])]
        /\ outcome' = [outcome EXCEPT ![m] = Value(RelayOutput(TaskHandle_poll(reply[p[2]])))]
        /\ reply' = [reply EXCEPT ![m] =
                        SendReply(reply[m], RelayOutput(TaskHandle_poll(reply[p[2]])))]
    /\ counter' = WriteThrough(counter, BodyEffect(sent[m], counter))
    /\ Notify(<<m>>)
    /\ pc' = [pc EXCEPT ![m] = AfterReply(reply[m])]
    /\ doneOrder' = Append(doneOrder, m)
    /\ UNCHANGED <<instr, lane, sideVars, chanVars, loopVars, caller, sent, mailbox, received,
                   rxOpen, lockW, lockR, lockQueue, startReply, endReply, tasksVars, batchVars>>

NestedNext ==
    \/ \E t \in NestTasks : send_nest(t)
    \/ start
    \/ \E m \in Msgs : run_task_begin(m)
    \/ \E m \in Msgs : run_task_started(m)
    \/ \E m \in Msgs : execute_lock(m)
    \/ \E m \in Msgs : sent[m].name /= "Relay" /\ execute_body(m)
    \/ \E m \in Msgs : execute_nested(m)
    \/ \E m \in Msgs : execute_resumed(m)
    \/ \E m \in Msgs : execute_return(m)
    \/ \E m \in Msgs : run_task_end(m)
    \/ start_quiet
    \/ \E i \in tspawned : tasks_execute(i)
    \/ receiver_dropped_T
    \/ \E m \in Msgs : ~Inner(m) /\ poll(m)

NestedInit == Init /\ caller = "concurrent"

\* A started subsystem whose tasks may send to it from their bodies.
NestedSpec == NestedInit /\ [][NestedNext]_vars

\* ------------------------------------------------------------- the system
Next ==
    \/ \E t \in Catalogue : send(t)
    \/ \E t \in Catalogue : send_mut(t)
    \/ \E ts \in BatchesOf(FALSE) : send_batch(ts)
    \/ \E ts \in BatchesOf(TRUE) : send_batch_mut(ts)
    \/ start
    \/ \E m \in Msgs : run_task_begin(m)
    \/ \E m \in Msgs : run_task_started(m)
    \/ \E m \in Msgs : execute_lock(m)
    \/ \E m \in Msgs : execute_body(m)
    \/ \E m \in Msgs : execute_abort(m)
    \/ \E m \in Msgs : execute_return(m)
    \/ \E m \in Msgs : run_task_end(m)
    \/ \E m \in Msgs : run_task_ended(m)
    \/ start_quiet
    \/ \E i \in tspawned : tasks_execute(i)
    \/ receiver_dropped_S
    \/ receiver_dropped_T
    \/ \E m \in Msgs : poll(m)
    \/ \E m \in Msgs : drop_handle(m)
    \/ \E sub \in {"S", "T"} : drop_ref(sub)
    \/ \E sub \in {"S", "T"} : loop_stopped(sub)
    \/ batch_poll_next
    \/ batch_poll_return

Spec == Init /\ [][Next]_vars

\* ================================================================ claims
Logged(m) == StartKind(sent[m]) = "StartTask"

Benchmarked(m) == StartKind(sent[m]) = "StartBenchmark"

InBody(m) == pc[m] = "body"

MutInBody == {m \in Msgs : InBody(m) /\ sent[m].is_mut}

ReadInBody == {m \in Msgs : InBody(m) /\ ~sent[m].is_mut}

\* C1: the loop receives the messages of one mailbox in exactly the order
\* they were sent: the i-th message received is the i-th message sent, and
\* while the receiver lives, what was received followed by what is queued is
\* the whole send history (nothing reordered, duplicated or skipped).
C1_FifoOrder ==
    /\ \A i \in 1..Len(received) : received[i] = i
    /\ rxOpen["S"] => received \o mailbox = [i \in 1..Len(sent) |-> i]

\* Two messages of a caller that does not await, one sent with send and one
\* with send_mut, have both been received and neither has started to run.
C1_Witness ==
    /\ caller = "concurrent"
    /\ received = <<1, 2>>
    /\ sent[1].is_mut /= sent[2].is_mut
    /\ pc[1] = "spawned"
    /\ pc[2] = "spawned"

\* C2: at every instant at most one mut task is inside its execute body, and
\* no non-mut task is inside its body while a mut task is.
C2_MutualExclusion ==
    /\ Cardinality(MutInBody) <= 1
    /\ MutInBody /= {} => ReadInBody = {}

\* Two non-mut tasks are inside their bodies at the same time.
C2_Witness == Cardinality(ReadInBody) = 2

\* C3: a message is answered at most once and its handle resolves to exactly
\* one outcome: the value its execute returned, or a cancellation when the
\* reply sender was dropped without sending. A reply channel that was
\* answered or closed never changes again, and neither does a resolved handle.
C3_Outcome ==
    \A m \in Msgs :
        /\ reply[m].tag = "value" => reply[m] = outcome[m]
        /\ handle[m].tag = "ok" => outcome[m] = Value(handle[m].val)
        /\ handle[m] = Cancelled => reply[m] = Closed /\ outcome[m] = Empty
        /\ handle[m] \in {Pending, Cancelled, Dropped} \/ handle[m].tag = "ok"

C3_Once ==
    \A m \in Msgs :
        /\ reply[m] /= Empty => reply'[m] = reply[m]
        /\ handle[m] /= Pending => handle'[m] = handle[m]

C3_AnsweredOnce == []C3_Outcome /\ [][C3_Once]_vars

\* One handle has resolved to its task's value and another to a cancellation.
C3_Witness ==
    \E m, n \in Msgs :
        /\ handle[m].tag = "ok"
        /\ outcome[m] = Value(handle[m].val)
        /\ handle[n] = Cancelled

\* C4: a handle whose message was dropped unanswered (the send met a closed
\* mailbox, the receiver was dropped with the message queued, or the task run
\* was abandoned before the reply) does not stay pending: polling it returns
\* the cancellation error, and that is what the handle resolves to (as long
\* as the caller holds the handle).
Unanswered(m) == pc[m] \in {"dropped", "failed"}

C4_DroppedCancels ==
    \A m \in Msgs :
        (Unanswered(m) /\ handle[m] /= Dropped) =>
            /\ TaskHandle_poll(reply[m]) = Cancelled
            /\ handle[m] \in {Pending, Cancelled}
            /\ m \in batchHandles => m \in SeqToSet(readyQueue)

\* The handle of a task abandoned before its reply and the handle of a task
\* sent to a closed mailbox have both resolved to the cancellation error.
C4_Witness ==
    \E m, n \in Msgs :
        /\ pc[m] = "failed"
        /\ pc[n] = "dropped"
        /\ ~rxOpen["S"]
        /\ handle[m] = Cancelled
        /\ handle[n] = Cancelled

\* C5: the BatchHandle of N tasks resolves to a list of exactly N results,
\* one per submitted task, however the completions fall over its polls.
C5_BatchLength ==
    batchState = "ready" =>
        /\ Len(batchOut) = Len(batchMembers)
        /\ \A k \in 1..Len(batchMembers) : handle[batchMembers[k]] \in SeqToSet(batchOut)

\* C6: a BatchHandle does not resolve while one of its handles is pending;
\* once all have completed nothing keeps it from resolving (every completed
\* handle it has not yielded is ready to run); and with a cancelled handle in
\* the batch the other tasks still ran and their results are in the list.
C6_BatchResolves ==
    /\ batchState = "ready" =>
          \A k \in 1..Len(batchMembers) : reply[batchMembers[k]] /= Empty
    /\ \A m \in batchHandles :
          (reply[m] /= Empty /\ m \in wakers) => m \in SeqToSet(readyQueue)
    /\ (batchState = "ready" /\ \E m \in SeqToSet(batchMembers) : handle[m] = Cancelled) =>
          \A m \in SeqToSet(batchMembers) :
              outcome[m] /= Empty => Ok(outcome[m].val) \in SeqToSet(batchOut)

\* C7: the sequential caller sends Increment(5), Increment(3), Get() to
\* running subsystems; the handle of Get() resolves to 8.
EndToEnd ==
    /\ caller = "sequential"
    /\ sent = <<Increment(5), Increment(3), Get>>

C7_EndToEnd ==
    (EndToEnd /\ rxOpen["S"] /\ rxOpen["T"] /\ handle[3] /= Pending) =>
        handle[3] = Ok(8)

C7_Witness == EndToEnd /\ handle[3] = Ok(8) /\ counter = 8

\* C8: a failure to notify the Tasks subsystem never affects the original
\* task: its run is not abandoned and its handle does not resolve to a
\* cancellation.
C8_InstrumentationHarmless ==
    \A m \in Msgs :
        (startReply[m] = "closed" \/ endReply[m] = "closed") =>
            /\ pc[m] /= "failed"
            /\ handle[m] /= Cancelled

\* C9: while a logged, non-benchmark task is inside its execute body, the
\* Tasks subsystem's task log holds an entry for its id.
C9_StartBeforeBody ==
    \A m \in Msgs : (InBody(m) /\ Logged(m)) => HasId(taskLog, m)

C9_Witness == \E m \in Msgs : InBody(m) /\ Logged(m) /\ HasId(taskLog, m)

\* C10 as stated: once the reply of an instrumented task is delivered, its
\* End message has been sent to the Tasks subsystem.
EndSent(m) == endReply[m] /= "none"

C10_EndBeforeReply ==
    \A m \in Msgs :
        (EndKind(sent[m]) /= "none" /\ reply[m].tag = "value") => EndSent(m)

\* C10 as amended: the outcome is delivered through the reply channel inside
\* execute, and only then is the End message sent: whenever the End message of
\* a task has been sent, queued or applied, its reply was already delivered
\* (or, with the handle dropped, its send was already refused).
ReplySendDone(m) == outcome[m] /= Empty /\ reply[m] \in {outcome[m], Orphaned}

C10_ReplyBeforeEnd ==
    /\ \A m \in Msgs : EndSent(m) => ReplySendDone(m)
    /\ \A k \in 1..Len(tmailbox) :
          tmailbox[k].kind \in {"EndTask", "EndBenchmark"} =>
              ReplySendDone(tmailbox[k].id)
    /\ \A k \in 1..Len(taskLog) :
          taskLog[k].complete => ReplySendDone(taskLog[k].id)

\* The End messages of a logged and of a benchmarked task have been sent, one
\* of them still queued on the Tasks mailbox.
C10_Witness ==
    \E m, n \in Msgs :
        /\ Logged(m) /\ EndSent(m)
        /\ Benchmarked(n) /\ EndSent(n)
        /\ \E k \in 1..Len(tmailbox) : tmailbox[k].kind \in {"EndTask", "EndBenchmark"}

\* C11: for every task id the Tasks subsystem applies the Start event before
\* the End event. An EndTask that is queued on, or launched by, the Tasks
\* subsystem already finds the entry of its id in the log, whatever else the
\* Tasks subsystem is running; and an entry goes from absent to present and
\* incomplete to complete, never back.
IsComplete(log, id) == \E i \in 1..Len(log) : log[i].id = id /\ log[i].complete

EndTasksPending ==
    {i \in SeqToSet(tmailbox) \cup tspawned : i.kind = "EndTask"}

C11_EndAfterStart == \A i \in EndTasksPending : HasId(taskLog, i.id)

C11_Lifecycle ==
    \A m \in Msgs :
        /\ HasId(taskLog, m) => HasId(taskLog', m)
        /\ IsComplete(taskLog, m) => IsComplete(taskLog', m)
        /\ (~HasId(taskLog, m) /\ HasId(taskLog', m)) => ~IsComplete(taskLog', m)

C11_StartBeforeEnd == []C11_EndAfterStart /\ [][C11_Lifecycle]_vars

\* The Tasks subsystem runs the EndTask of one task and the StartTask of
\* another at the same time; the first task's entry is present and incomplete.
C11_Witness ==
    \E i, j \in tspawned :
        /\ i.kind = "EndTask"
        /\ j.kind = "StartTask"
        /\ i.id /= j.id
        /\ HasId(taskLog, i.id)
        /\ ~IsComplete(taskLog, i.id)

\* C12: a subsystem started with start_quiet sends no instrumentation: every
\* message on the Tasks mailbox, and every one the Tasks subsystem has
\* launched, was sent by the dispatch of S, never by the Tasks subsystem's own
\* dispatch, although the Tasks subsystem runs tasks with log = true.
C12_QuietSendsNothing ==
    \A i \in SeqToSet(tmailbox) \cup tspawned : i.by = "S"

\* The Tasks subsystem has run a StartTask (log = true) and a StartBenchmark
\* (log = false) and has launched a further message, with another queued.
C12_Witness ==
    /\ taskLog /= <<>>
    /\ benchLog /= <<>>
    /\ tspawned /= {}
    /\ tmailbox /= <<>>

\* C13: the dispatch loop is fire-and-continue: whenever its receiver lives
\* and a message is queued, the loop can receive and launch it, whatever the
\* tasks of earlier messages are doing (running, or waiting for the lock).
C13_FireAndContinue == (rxOpen["S"] /\ mailbox /= <<>>) => ENABLED start

\* Message 1, a mut task, waits for the state lock that the task of message
\* 2, received after it, holds inside its body.
C13_Witness ==
    /\ received = <<1, 2>>
    /\ sent[1].is_mut
    /\ pc[1] = "waitLock"
    /\ pc[2] = "body"

\* C14: a dispatch loop ends, and reports stop, once its mailbox is closed
\* and drained, and never while a sender exists. A stopped loop has no
\* sender left (for the Tasks subsystem: no caller ref, no loop of S, no task
\* run of S) and has received everything that was sent; a loop with no sender
\* and an empty queue can stop, and one with a queued message cannot.
C14_LoopStop ==
    /\ stopped["S"] =>
          refs["S"] = 0 /\ mailbox = <<>> /\ Len(received) = Len(sent)
    /\ stopped["T"] =>
          refs["T"] = 0 /\ ~rxOpen["S"] /\ InFlight = {} /\ tmailbox = <<>>
    /\ \A sub \in {"S", "T"} :
          /\ (rxOpen[sub] /\ Senders(sub) = 0 /\ QueueOf(sub) = <<>>) =>
                ENABLED loop_stopped(sub)
          /\ (rxOpen[sub] /\ QueueOf(sub) /= <<>>) => ~ENABLED loop_stopped(sub)

\* Both loops have stopped, S's after it received two messages sent before
\* the caller dropped its refs.
C14_Witness ==
    /\ stopped["S"]
    /\ stopped["T"]
    /\ Len(received) = MaxDetached
    /\ taskLog /= <<>>

\* C15: a handle dropped before the task was answered does not abort the
\* dispatch. The run of such a message is abandoned only when its Start
\* notification failed; its body can run and, once it ran, has returned its
\* outcome and applied its effect to the state; execute returns and releases
\* the guard; the End message is sent; and the loop still receives.
DroppedUnanswered(m) == handle[m] = Dropped /\ reply[m] = Orphaned

RECURSIVE EffectsUpTo(_)
EffectsUpTo(k) ==
    IF k = 0 THEN 0
    ELSE EffectsUpTo(k - 1) +
         (IF outcome[k] /= Empty /\ sent[k].is_mut THEN sent[k].arg ELSE 0)

C15_DropHarmless ==
    /\ \A m \in Msgs :
          DroppedUnanswered(m) =>
            /\ pc[m] = "failed" => startReply[m] = "closed"
            /\ pc[m] = "body" => ENABLED execute_body(m)
            /\ pc[m] \in {"replied", "post", "awaitEnd", "done"} => outcome[m] /= Empty
            /\ pc[m] = "replied" => ENABLED execute_return(m)
            /\ pc[m] \in {"post", "awaitEnd", "done"} => lockW /= m /\ m \notin lockR
            /\ pc[m] = "post" => ENABLED run_task_end(m)
            /\ (pc[m] \in {"awaitEnd", "done"} /\ EndKind(sent[m]) /= "none") => EndSent(m)
    /\ counter = EffectsUpTo(Len(sent))
    /\ (rxOpen["S"] /\ mailbox /= <<>>) => ENABLED start

\* The handle of message 1, a logged mut task, was dropped unanswered; its
\* run is complete with the End message sent, and message 2, a Get sent after
\* it, resolved to the value message 1 wrote.
C15_Witness ==
    /\ Len(sent) = 2
    /\ DroppedUnanswered(1)
    /\ sent[1].is_mut /\ Logged(1)
    /\ pc[1] = "done" /\ EndSent(1)
    /\ sent[2] = Get
    /\ pc[2] = "done"
    /\ handle[2] = Ok(sent[1].arg)

\* C16: get for a type that was never registered fails on every clone of the
\* Channels and never returns a ref; the failed call leaves the registry as
\* it was (no entry exists for a type that add never inserted).
GetReturns ==
    \E t \in 1..MaxThreads :
        /\ chanThread[t].phase = "getting"
        /\ chanThread'[t].phase \in {"got", "panicked"}

C16_Unregistered ==
    /\ \A t \in 1..MaxThreads :
          (chanThread[t].phase \in {"got", "panicked"} /\ chanThread[t].last = 0) =>
              /\ chanThread[t].phase = "panicked"
              /\ chanThread[t].box = 0
    /\ \A c \in 1..Len(chanPtr), ty \in ChanTypes :
          chanAdded[ty] = <<>> => Registry(c)[ty] = 0

C16_GetUnregisteredFails ==
    []C16_Unregistered /\ [][GetReturns => chanHeap' = chanHeap]_vars

\* A get through the second Channels object for a type never registered has
\* panicked on the missing entry, while the other type is registered.
C16_Witness ==
    \E t \in 1..MaxThreads :
        /\ chanThread[t].phase = "panicked"
        /\ chanThread[t].tag = "missing"
        /\ chanThread[t].c = 2
        /\ chanAdded[chanThread[t].ty] = <<>>
        /\ \E ty \in ChanTypes : chanAdded[ty] /= <<>>

\* C17: entries are immutable once inserted: the registry entry of a type is
\* the ref its first add inserted, whatever was added for the type later.
C17_EntriesImmutable ==
    \A c \in 1..Len(chanPtr), ty \in ChanTypes :
        chanAdded[ty] /= <<>> => Registry(c)[ty] = chanAdded[ty][1]

\* C18: every Channels object sees the one registry that holds, per type,
\* the ref add inserted (the latest); a ref that get returned, through any
\* clone, addresses that mailbox; get reports a missing entry only for a type
\* no add has inserted; and a task sent through a returned ref is delivered
\* to a mailbox that was registered for the type.
C18_GetAddressesRegistered ==
    /\ \A c \in 1..Len(chanPtr), ty \in ChanTypes : Registry(c)[ty] = LastAdded(ty)
    /\ \A t \in 1..MaxThreads :
          /\ chanThread[t].phase = "got" =>
                chanThread[t].box = chanThread[t].last /\ chanThread[t].last /= 0
          /\ chanThread[t].tag = "missing" => chanThread[t].last = 0
    /\ \A ty \in ChanTypes, k \in 1..MaxBoxes :
          chanInbox[ty][k] > 0 => k \in SeqToSet(chanAdded[ty])

\* A ref registered through one Channels object was returned by get through
\* the other, and a task sent through it was delivered to its mailbox.
C18_Witness ==
    \E t \in 1..MaxThreads, u \in 1..MaxThreads :
        /\ chanThread[t].tag = "added"
        /\ chanThread[u].tag = "sent"
        /\ chanThread[t].c /= chanThread[u].c
        /\ chanThread[t].ty = chanThread[u].ty
        /\ chanThread[t].box = chanThread[u].box
        /\ chanInbox[chanThread[u].ty][chanThread[u].box] = 1

\* C19: once its accumulator exists, n >= 1 calls of end_benchmark with the
\* durations d_1..d_n leave runs = n, run_time = d_1 + .. + d_n, average =
\* run_time / n, min = the least and max = the greatest of the d_i, whatever
\* other benchmark is updated in between.
RECURSIVE SumOf(_)
SumOf(ds) == IF ds = <<>> THEN 0 ELSE Head(ds) + SumOf(Tail(ds))

LeastOf(ds) == CHOOSE x \in SeqToSet(ds) : \A y \in SeqToSet(ds) : x <= y

GreatestOf(ds) == CHOOSE x \in SeqToSet(ds) : \A y \in SeqToSet(ds) : x >= y

C19_BenchmarkStats ==
    \A i \in 1..Len(benchLog) :
        LET b == benchLog[i]
            ds == benchSamples[b.name]
        IN  Len(ds) >= 1 =>
              /\ b.runs = Len(ds)
              /\ b.run_time = SumOf(ds)
              /\ b.average = <<SumOf(ds), Len(ds)>>
              /\ b.min = LeastOf(ds)
              /\ b.max = GreatestOf(ds)

\* Two samples, 2 then 1, were applied to one accumulator: runs = 2,
\* average = 3/2, min = 1, max = 2.
C19_Witness ==
    \E i \in 1..Len(benchLog) :
        /\ benchSamples[benchLog[i].name] = <<2, 1>>
        /\ benchLog[i].runs = 2
        /\ benchLog[i].average = <<3, 2>>
        /\ benchLog[i].min = 1
        /\ benchLog[i].max = 2

\* C20 as stated: the lock is held by nobody, by readers only, or by exactly
\* one writer; a read() waits only while a writer holds the lock; a lock()
\* waits only while a reader or a writer holds it.
Readers == {c \in 1..MaxClients : lockClient[c] = "reading"}

Writers == {c \in 1..MaxClients : lockClient[c] \in {"writing", "storing"}}

Discipline ==
    /\ Cardinality(Writers) <= 1
    /\ Writers /= {} => Readers = {}
    /\ lockR = Readers
    /\ Writers = {lockW} \ {0}

WriterWaitsForHolders ==
    \A c \in 1..MaxClients :
        lockClient[c] = "waitWrite" => Readers \cup Writers /= {}

C20_ReadWaitsOnlyForWriter ==
    /\ Discipline
    /\ WriterWaitsForHolders
    /\ \A c \in 1..MaxClients : lockClient[c] = "waitRead" => Writers /= {}

\* C20 as amended: the same, except that a read() waits while a writer holds
\* the lock or a lock() call that came before it is still waiting.
WriterAhead(c) ==
    \E i, j \in 1..Len(lockQueue) :
        i < j /\ lockQueue[i].mut /\ lockQueue[j].id = c

C20_LockDiscipline ==
    /\ Discipline
    /\ WriterWaitsForHolders
    /\ \A c \in 1..MaxClients :
          lockClient[c] = "waitRead" => (Writers /= {} \/ WriterAhead(c))

\* One task holds a read guard, a lock() waits for it, and a read() that came
\* after the lock() waits behind it although no writer holds the lock.
C20_Witness ==
    \E a, b, c \in 1..MaxClients :
        /\ lockClient[a] = "reading"
        /\ lockClient[b] = "waitWrite"
        /\ lockClient[c] = "waitRead"
        /\ lockW = 0
        /\ lockQueue = <<Waiter(b, TRUE), Waiter(c, FALSE)>>

\* C21: read_sync() and lock_sync() never suspend: a task inside one of them
\* never waits in line for the lock. An attempt made while a writer holds the
\* lock (read_sync) or while anybody holds it (lock_sync) returns the error,
\* and a refused attempt leaves the holders, the waiting calls and the value
\* as they were; an attempt on a free lock returns the guard.
SyncOps == {"read_sync", "lock_sync"}

C21_NoSuspend ==
    \A c \in 1..MaxClients :
        lockOp[c] \in SyncOps =>
            /\ lockClient[c] \notin {"waitRead", "waitWrite"}
            /\ \A i \in 1..Len(lockQueue) : lockQueue[i].id /= c

C21_Attempt ==
    \A c \in 1..MaxClients :
        (lockClient[c] = "idle" /\ lockClient'[c] /= "idle" /\ lockOp'[c] \in SyncOps) =>
            /\ lockClient'[c] \in {"reading", "writing", "refused"}
            /\ lockClient'[c] = "refused" =>
                  /\ <<lockW, lockR, lockQueue, lockCell>>' = <<lockW, lockR, lockQueue, lockCell>>
                  /\ lockW /= 0 \/ lockR /= {}
            /\ (lockOp'[c] = "read_sync" /\ lockW /= 0) => lockClient'[c] = "refused"
            /\ (lockOp'[c] = "lock_sync" /\ (lockW /= 0 \/ lockR /= {})) =>
                  lockClient'[c] = "refused"
            /\ (lockW = 0 /\ lockR = {}) =>
                  IF lockOp'[c] = "lock_sync"
                  THEN lockClient'[c] = "writing" /\ lockW' = c
                  ELSE lockClient'[c] = "reading" /\ c \in lockR'

C21_SyncNeverSuspends == []C21_NoSuspend /\ [][C21_Attempt]_vars

\* A read_sync was refused while a writer holds the lock, after a lock_sync on
\* the free lock returned the guard to that writer.
C21_Witness ==
    \E a, b \in 1..MaxClients :
        /\ lockClient[a] = "writing" /\ lockOp[a] = "lock_sync"
        /\ lockClient[b] = "refused" /\ lockOp[b] = "read_sync"
        /\ lockW = a

\* C22: all clones of an ArcLock refer to one value, and assignments are
\* atomic: whatever a task holding a guard sees through its clone is, whole,
\* the value of the last assignment that completed through any clone; a value
\* is between old and new only while the assigning task holds the write
\* guard. write(value) completes with the value in place and its guard
\* dropped.
C22_Observed ==
    /\ \A c \in 1..MaxClients :
          lockClient[c] \in {"reading", "writing"} => ValueOf(c) = Whole(lockWritten)
    /\ (\A c \in 1..MaxClients : lockClient[c] /= "storing") =>
          \A c \in 1..MaxClients : ValueOf(c) = Whole(lockWritten)

C22_WriteReturns ==
    \A c \in 1..MaxClients :
        (lockOp[c] = "write" /\ lockClient[c] = "storing" /\ lockClient'[c] /= "storing") =>
            /\ lockClient'[c] = "idle"
            /\ lockW' /= c
            /\ \A k \in 1..MaxClients : ValueOf(k)' = Whole(lockVal[c])

C22_ClonesShareValue == []C22_Observed /\ [][C22_WriteReturns]_vars

\* write(2) through one clone has returned, and a task holding a read guard
\* on another clone sees 2 while a third task's write waits for the lock.
C22_Witness ==
    \E a, b, c \in 1..MaxClients :
        /\ a /= b
        /\ lockOp[a] = "write" /\ lockClient[a] = "idle"
        /\ lockWritten = 2
        /\ lockClient[b] = "reading" /\ ValueOf(b) = Whole(2)
        /\ lockClient[c] = "waitWrite" /\ lockOp[c] = "write" /\ lockVal[c] = 1

\* C23: the state guard of a task run is released on every exit path of its
\* execution: a guard is held only by a run that is inside execute (in its
\* body, or replying); a run that returned normally, returned after a failed
\* reply send, or was aborted holds none and waits for none; so with no run
\* inside execute the lock is free and nothing waits, and a later request in
\* either mode is granted at once.
InExecute(m) == pc[m] \in {"body", "replied"}

C23_GuardReleased ==
    /\ \A m \in Msgs : (lockW = m \/ m \in lockR) => InExecute(m)
    /\ \A i \in 1..Len(lockQueue) : pc[lockQueue[i].id] = "waitLock"
    /\ (\A m \in Msgs : ~InExecute(m)) => (CanRead /\ CanLock)
    /\ \A m \in Msgs :
          (pc[m] = "wantLock" /\ \A k \in Msgs : ~InExecute(k)) =>
              ENABLED (execute_lock(m) /\ pc'[m] = "body")

\* The body of message 1, a mut task, aborted; message 2, whose handle was
\* dropped unanswered, then got the guard, ran and failed to send its reply,
\* and still holds the guard it is about to drop.
C23_Witness ==
    /\ Len(sent) = 2
    /\ pc[1] = "aborted" /\ sent[1].is_mut
    /\ pc[2] = "replied" /\ DroppedUnanswered(2)
    /\ lockW = 2 \/ 2 \in lockR

\* C24: a TaskHandle resolves to exactly the value the task's execute
\* returned, error values included: once execute returned an Output, the
\* handle resolves to Ok of that Output and to nothing else (not to a
\* cancellation and not to another value), and the reply channel carries it
\* unchanged.
Returned(m) == outcome[m] /= Empty

C24_OutputPropagated ==
    \A m \in Msgs :
        /\ (Returned(m) /\ handle[m] \notin {Pending, Dropped}) =>
              handle[m] = Ok(outcome[m].val)
        /\ (Returned(m) /\ reply[m] /= Orphaned) => reply[m] = Value(outcome[m].val)
        /\ (Returned(m) /\ outcome[m].val = TaskExecutionError /\ reply[m] /= Orphaned) =>
              TaskHandle_poll(reply[m]) = Ok(TaskExecutionError)
        /\ handle[m].tag = "ok" => Returned(m)

\* A handle has resolved to the error its task's execute returned, and
\* another to a counter reading.
C24_Witness ==
    \E m, n \in Msgs :
        /\ outcome[m] = Value(TaskExecutionError)
        /\ handle[m] = Ok(TaskExecutionError)
        /\ sent[n] = Get
        /\ handle[n] = Ok(outcome[n].val)
        /\ outcome[n].val > 0

\* C25: under start the flags select the instrumentation. What a run hands
\* to tasks.send is, in order: StartBenchmark then EndBenchmark for a task
\* with benchmark = true, whatever its log flag; StartTask then EndTask for
\* log = true and benchmark = false; nothing for log = false and benchmark =
\* false. The Start is sent before the run asks for its guard; a run whose
\* execute completed sends its one End next (nothing can keep it from that)
\* and none after it; a run whose execute did not complete sends no End.
Instrumented(t) == t.log \/ t.benchmark

Prefixes(ks) == {SubSeq(ks, 1, k) : k \in 0..Len(ks)}

C25_FlagsSelect ==
    \A m \in Msgs :
        LET t == sent[m]
            ks == instr[m]
        IN  /\ t.benchmark => ks \in Prefixes(<<"StartBenchmark", "EndBenchmark">>)
            /\ (t.log /\ ~t.benchmark) => ks \in Prefixes(<<"StartTask", "EndTask">>)
            /\ ~Instrumented(t) => ks = <<>>
            /\ (Instrumented(t) /\ pc[m] \notin {"queued", "spawned", "dropped"}) => Len(ks) >= 1
            /\ pc[m] = "post" => Len(ks) <= 1 /\ ENABLED run_task_end(m)
            /\ (Instrumented(t) /\ pc[m] \in {"awaitEnd", "done"}) => Len(ks) = 2
            /\ pc[m] \notin {"awaitEnd", "done"} => Len(ks) <= 1

\* A task with benchmark = true and log = false has run to its end: it sent
\* StartBenchmark and EndBenchmark, and the Tasks subsystem holds its
\* accumulator and no log entry.
C25_Witness ==
    \E m \in Msgs :
        /\ sent[m].benchmark /\ ~sent[m].log
        /\ pc[m] = "done"
        /\ instr[m] = <<"StartBenchmark", "EndBenchmark">>
        /\ HasName(benchLog, sent[m].name)
        /\ taskLog = <<>>

\* C26: the io flag selects the lane and nothing else. Two task types that
\* differ in io only, sent to one subsystem, are launched on different lanes;
\* at equal progress their runs have sent the same instrumentation messages
\* and carry the same outcome and reply; inside execute each holds the guard
\* its access mode asks for; and every completed body, whichever its lane,
\* has left the same state effect.
Twins(m, n) == m /= n /\ sent[m] = Twin(sent[n])

LockMode(m) == IF lockW = m THEN "write" ELSE IF m \in lockR THEN "read" ELSE "none"

C26_IoSelectsLaneOnly ==
    \A m, n \in Msgs :
        Twins(m, n) =>
            /\ (lane[m] /= "none" /\ lane[n] /= "none") => lane[m] /= lane[n]
            /\ lane[m] \in {"none", IF sent[m].io THEN "blocking" ELSE "shared"}
            /\ pc[m] = pc[n] =>
                  /\ instr[m] = instr[n]
                  /\ outcome[m] = outcome[n]
                  /\ reply[m] = reply[n]
                  /\ LockMode(m) = LockMode(n)
            /\ InExecute(m) => LockMode(m) = (IF sent[m].is_mut THEN "write" ELSE "read")
            /\ counter = Len(doneOrder) * BodyEffect(sent[m], 0)

\* A logged mut task and its twin have both run to the end, one on each
\* lane, with the same instrumentation and the same reply.
C26_Witness ==
    /\ Len(sent) = 2
    /\ Twins(1, 2)
    /\ sent[1].is_mut /\ sent[1].log
    /\ lane[1] /= lane[2]
    /\ "blocking" \in {lane[1], lane[2]}
    /\ pc[1] = "done" /\ pc[2] = "done"
    /\ instr[1] = instr[2] /\ Len(instr[1]) = 2
    /\ reply[1] = reply[2] /\ reply[1].tag = "value"

\* C27: send order does not fix execution order. No step of a run waits for
\* the run of a message sent before it: a launched run can begin, ask for the
\* guard, and, while the earlier run has not asked for it, get it; inside
\* execute it can run its body and return. So the later of two tasks can run
\* its body to the end before the earlier one starts, for non-mut and for mut
\* tasks alike.
BeforeLock(m) == pc[m] \in {"queued", "spawned", "awaitStart", "wantLock"}

C27_NoOrderImposed ==
    \A m, n \in Msgs :
        m < n =>
            /\ pc[n] = "spawned" => ENABLED run_task_begin(n)
            /\ pc[n] = "wantLock" => ENABLED execute_lock(n)
            /\ (pc[n] = "wantLock" /\ BeforeLock(m) /\ lockW = 0 /\ lockR = {}) =>
                  ENABLED (execute_lock(n) /\ pc'[n] = "body")
            /\ pc[n] = "body" => ENABLED execute_body(n)
            /\ pc[n] = "replied" => ENABLED execute_return(n)
            /\ pc[n] = "post" => ENABLED run_task_end(n)

\* Two mut tasks were sent without awaiting: the body of the second has run
\* to its end and its run is over, while the first, received before it, has
\* not yet got the write guard.
C27_Witness ==
    /\ received = <<1, 2>>
    /\ sent[1].is_mut /\ sent[2].is_mut
    /\ doneOrder = <<2>>
    /\ pc[2] = "done"
    /\ pc[1] = "wantLock"

\* The same with two non-mut tasks.
C27_WitnessShared ==
    /\ received = <<1, 2>>
    /\ ~sent[1].is_mut /\ ~sent[2].is_mut
    /\ doneOrder = <<2>>
    /\ pc[2] = "done"
    /\ pc[1] = "wantLock"

\* C28: a failure inside one task's run (a failed instrumentation send or
\* await, a failed reply send, an aborted body) is confined to that task: the
\* loop keeps receiving, and every message sent after the failure and
\* received by the loop is executed, not abandoned. Stated for the caller
\* that awaits each handle before it sends again, so that a later message was
\* sent after the failure.
RunFailed(m) ==
    \/ pc[m] \in {"failed", "aborted"}
    \/ pc[m] \in {"post", "awaitEnd", "done"} /\ DroppedUnanswered(m)
    \/ pc[m] = "done" /\ endReply[m] = "closed"

Abandoned(n) == pc[n] = "failed"

C28_FailureConfined ==
    /\ (rxOpen["S"] /\ mailbox /= <<>>) => ENABLED start
    /\ \A n \in Msgs : pc[n] = "spawned" => ENABLED run_task_begin(n)
    /\ caller = "sequential" =>
          \A m, n \in Msgs :
              (m < n /\ RunFailed(m) /\ n \in SeqToSet(received)) => ~Abandoned(n)

\* C29: the results of a resolved BatchHandle are listed in the order in
\* which the tasks completed. Stated for a batch whose tasks all ran and
\* whose list holds a result for each of them.
BatchDone == SelectSeq(doneOrder, LAMBDA m : m \in SeqToSet(batchMembers))

C29_CompletionOrder ==
    (/\ batchState = "ready"
     /\ Len(batchOut) = Len(batchMembers)
     /\ Len(BatchDone) = Len(batchMembers)) =>
        batchOut = [i \in 1..Len(BatchDone) |-> Ok(outcome[BatchDone[i]].val)]

\* C30: start_benchmark(X) creates the accumulator of X with runs = 0,
\* run_time = 0, max = 0 and min at the maximal value when X has none, and is
\* a no-op when X has one: handling a StartBenchmark leaves every existing
\* accumulator as it was, in all its fields, and adds at most the fresh
\* accumulator of its own name. A name has an accumulator exactly when a
\* StartBenchmark was handled for it, and an accumulator without samples is
\* fresh however often it was started.
FreshAccumulator(b) ==
    /\ b.runs = 0
    /\ b.run_time = 0
    /\ b.max = 0
    /\ b.min = F64_MAX

C30_Accumulators ==
    /\ \A n \in BenchNames : HasName(benchLog, n) <=> benchStarts[n] >= 1
    /\ \A i, j \in 1..Len(benchLog) : benchLog[i].name = benchLog[j].name => i = j
    /\ \A i \in 1..Len(benchLog) :
          benchSamples[benchLog[i].name] = <<>> => FreshAccumulator(benchLog[i])

C30_StartStep ==
    \A n \in BenchNames :
        benchStarts'[n] = benchStarts[n] + 1 =>
            /\ \A i \in 1..Len(benchLog) : benchLog'[i] = benchLog[i]
            /\ IF HasName(benchLog, n)
               THEN benchLog' = benchLog
               ELSE /\ Len(benchLog') = Len(benchLog) + 1
                    /\ benchLog'[Len(benchLog')].name = n
                    /\ FreshAccumulator(benchLog'[Len(benchLog')])

C30_StartIsIdempotent == []C30_Accumulators /\ [][C30_StartStep]_vars

\* A benchmark was started twice and holds two samples, next to a fresh
\* accumulator of another name.
C30_Witness ==
    \E i, j \in 1..Len(benchLog) :
        /\ benchStarts[benchLog[i].name] = 2
        /\ benchLog[i].runs = 2
        /\ benchLog[i].min < F64_MAX
        /\ i /= j
        /\ FreshAccumulator(benchLog[j])

\* C31: start_task for an id without an entry appends the entry built by
\* StartTask (complete = false) at the end of the task map; end_task(id, t)
\* for an id with an entry sets complete = true and duration = t on it,
\* applies the formatter to the entry so updated and stores the result as
\* its display; every other entry, every other field and the order of the
\* map are unchanged.
TasksCall(op) == lastCall'["tasks"].n = logCalls' /\ logCalls' = logCalls + 1 /\ lastCall'["tasks"].op = op

BenchCall(op) ==
    lastCall'["benchmarks"].n = logCalls' /\ logCalls' = logCalls + 1 /\ lastCall'["benchmarks"].op = op

C31_Step ==
    LET c == lastCall'["tasks"]
    IN  /\ (TasksCall("start_task") /\ ~HasId(taskLog, c.id)) =>
              /\ Len(taskLog') = Len(taskLog) + 1
              /\ SubSeq(taskLog', 1, Len(taskLog)) = taskLog
              /\ taskLog'[Len(taskLog')].id = c.id
              /\ taskLog'[Len(taskLog')].name = c.name
              /\ taskLog'[Len(taskLog')].complete = FALSE
        /\ (TasksCall("end_task") /\ HasId(taskLog, c.id)) =>
              /\ Len(taskLog') = Len(taskLog)
              /\ Len(c.applied) = 1
              /\ \A i \in 1..Len(taskLog) :
                    IF taskLog[i].id = c.id
                    THEN /\ taskLog'[i].complete = TRUE
                         /\ taskLog'[i].duration = c.time
                         /\ c.applied[1] = [taskLog[i] EXCEPT !.complete = TRUE,
                                                              !.duration = c.time]
                         /\ taskLog'[i].display = format_duration(c.applied[1].duration)
                         /\ taskLog'[i] = [c.applied[1] EXCEPT !.display = taskLog'[i].display]
                    ELSE taskLog'[i] = taskLog[i]

C31_StartAndEnd == [][C31_Step]_vars

\* The entry inserted first was ended after a second entry was inserted: it
\* is complete with the duration 2 and still first.
C31_Witness ==
    /\ Len(taskLog) = 2
    /\ lastCall["tasks"].op = "end_task"
    /\ lastCall["tasks"].id = taskLog[1].id
    /\ lastCall["tasks"].n = logCalls
    /\ taskLog[1].complete /\ taskLog[1].duration = 2
    /\ taskLog[1].display = format_duration(2)
    /\ ~taskLog[2].complete

\* C36: end_task for an id without a log entry and end_benchmark for a name
\* without an accumulator return Ok(()) and change nothing: neither map gets
\* an entry or changes in any other way, and the formatter is not applied.
C36_Step ==
    /\ (TasksCall("end_task") /\ ~HasId(taskLog, lastCall'["tasks"].id)) =>
          /\ taskLog' = taskLog
          /\ benchLog' = benchLog
          /\ lastCall'["tasks"].applied = <<>>
          /\ lastCall'["tasks"].result = <<"Ok">>
    /\ (BenchCall("end_benchmark") /\ ~HasName(benchLog, lastCall'["benchmarks"].name)) =>
          /\ taskLog' = taskLog
          /\ benchLog' = benchLog
          /\ lastCall'["benchmarks"].applied = <<>>
          /\ lastCall'["benchmarks"].result = <<"Ok">>

C36_EndOfAbsentIsNoOp == [][C36_Step]_vars

\* Each map has one entry, and the last call on each was an end for a key
\* that has none: both returned Ok(()) with the formatter unused.
C36_Witness ==
    /\ Len(taskLog) = 1 /\ Len(benchLog) = 1
    /\ lastCall["tasks"].op = "end_task"
    /\ ~HasId(taskLog, lastCall["tasks"].id)
    /\ lastCall["tasks"].applied = <<>> /\ lastCall["tasks"].result = <<"Ok">>
    /\ lastCall["benchmarks"].op = "end_benchmark"
    /\ ~HasName(benchLog, lastCall["benchmarks"].name)
    /\ lastCall["benchmarks"].applied = <<>> /\ lastCall["benchmarks"].result = <<"Ok">>

\* C37: the task map only grows and only moves forward: no call removes or
\* moves an entry, no entry goes from complete back to incomplete, a
\* start_task for an id that has an entry leaves the whole map as it is, and
\* get_task_displays changes nothing.
C37_Step ==
    /\ Len(taskLog') >= Len(taskLog)
    /\ \A i \in 1..Len(taskLog) :
          /\ taskLog'[i].id = taskLog[i].id
          /\ taskLog[i].complete => taskLog'[i].complete
    /\ (TasksCall("start_task") /\ HasId(taskLog, lastCall'["tasks"].id)) =>
          taskLog' = taskLog
    /\ TasksCall("get_task_displays") => taskLog' = taskLog

C37_LogMonotonic == [][C37_Step]_vars

\* A StartTask with another name was the last call for an id whose entry is
\* complete: the entry kept its name, its duration and its complete flag.
C37_Witness ==
    \E i \in 1..Len(taskLog) :
        /\ lastCall["tasks"].op = "start_task"
        /\ lastCall["tasks"].n = logCalls
        /\ lastCall["tasks"].id = taskLog[i].id
        /\ lastCall["tasks"].name /= taskLog[i].name
        /\ taskLog[i].complete
        /\ taskLog[i].duration = 1

\* C32: a resolved handle implies that the task's state change is complete
\* and visible. A reply carries a value only after the body ran, and the
\* state is the sum of the effects of the bodies that ran; for the caller
\* that awaits each handle before it sends again, the body of every task
\* observes exactly the effects of the mut tasks sent before it whose
\* handles resolved to their output.
Resolved(m) == handle[m] \notin {Pending, Cancelled, Dropped}

RECURSIVE ResolvedEffects(_)
ResolvedEffects(k) ==
    IF k = 0 THEN 0
    ELSE ResolvedEffects(k - 1) +
         (IF Resolved(k) /\ sent[k].is_mut THEN BodyEffect(sent[k], 0) ELSE 0)

C32_ResolvedIsVisible ==
    /\ \A m \in Msgs : (reply[m].tag = "value" \/ Resolved(m)) => outcome[m] /= Empty
    /\ counter = EffectsUpTo(Len(sent))
    /\ caller = "sequential" =>
          \A n \in Msgs :
              outcome[n] /= Empty =>
                  outcome[n] = Value(BodyOutput(sent[n], ResolvedEffects(n - 1)))

\* The sequential caller awaited Increment(3), then awaited a Touch, which
\* found the counter changed and reported no error, then sent a Get, whose
\* body returned the sum of both effects.
C32_Witness ==
    /\ caller = "sequential"
    /\ Len(sent) = 3
    /\ sent[1] = Increment(3) /\ Resolved(1)
    /\ sent[2] = Touch /\ handle[2] = Ok(0)
    /\ sent[3] = Get
    /\ outcome[3] = Value(BodyEffect(Touch, 3))

\* C33: a task whose body sends a mut task to its own subsystem and awaits
\* the handle never completes: the outer task stays inside its body with its
\* reply unsent and its handle pending; the inner task is received and
\* launched by the loop, which keeps receiving, but never holds the write
\* guard, is never answered, and its handle stays pending.
C33_NestedNeverCompletes ==
    /\ \A p \in nested :
          /\ pc[p[1]] = "body"
          /\ reply[p[1]] = Empty /\ handle[p[1]] = Pending
          /\ lockW /= p[2]
          /\ pc[p[2]] \in {"queued", "spawned", "awaitStart", "wantLock", "waitLock"}
          /\ reply[p[2]] = Empty /\ handle[p[2]] = Pending
    /\ (rxOpen["S"] /\ mailbox /= <<>>) => ENABLED start

\* C34: Channels::add never suspends and never reports failure. An idle
\* thread can always make the call, whoever holds the registry lock; the
\* call that finds the lock held returns normally with nothing inserted and
\* the registry, the lock and the record of insertions as they were; add is
\* never the call that panics. No get returns a ref for a type whose only
\* registrations were lost this way: it fails as for a type never registered.
AddSkipped(t) ==
    /\ chanThread[t].phase = "idle"
    /\ chanThread'[t] /= chanThread[t]
    /\ chanThread'[t].tag = "skipped"

C34_AddAlwaysReturns ==
    /\ \A t \in 1..MaxThreads, c \in 1..Len(chanPtr) :
          (chanThread[t].phase = "idle" /\ Len(chanAdded["S"]) < MaxAdds) =>
              ENABLED add_begin(t, c, "S", 1)
    /\ \A t \in 1..MaxThreads :
          /\ chanThread[t].phase = "adding" => ENABLED add_end(t)
          /\ chanThread[t].tag \in {"skipped", "added"} => chanThread[t].phase = "idle"
          /\ chanThread[t].phase = "panicked" => chanThread[t].tag \in {"lock", "missing"}
          /\ chanThread[t].phase = "got" => chanAdded[chanThread[t].ty] /= <<>>
          /\ (chanThread[t].phase = "panicked" /\ chanAdded[chanThread[t].ty] = <<>>) =>
                chanThread[t].last = 0

C34_SkipStep ==
    \A t \in 1..MaxThreads :
        /\ AddSkipped(t) =>
              /\ ~lock_sync(chanLock[chanPtr[chanThread'[t].c]])
              /\ chanHeap' = chanHeap
              /\ chanLock' = chanLock
              /\ chanAdded' = chanAdded
        /\ (chanThread[t].phase = "idle" /\ chanThread'[t].phase = "adding") =>
              lock_sync(chanLock[chanPtr[chanThread'[t].c]])

C34_AddSilentlyLost == []C34_AddAlwaysReturns /\ [][C34_SkipStep]_vars

\* The add of a ref for S returned without inserting, no add for S ever
\* inserted, the lock is free again, and a get for S panicked for the missing
\* entry.
C34_Witness ==
    \E t, u \in 1..MaxThreads :
        /\ chanThread[t].tag = "skipped" /\ chanThread[t].ty = "S"
        /\ chanAdded["S"] = <<>>
        /\ \A p \in 1..Len(chanLock) : chanLock[p] = Unlocked
        /\ chanThread[u].phase = "panicked"
        /\ chanThread[u].tag = "missing" /\ chanThread[u].ty = "S"

\* C35: the updates of concurrent EndBenchmark tasks are applied one at a
\* time and none is lost. For every benchmark name, once the EndBenchmark
\* message of each task that sent one was processed, the accumulator has
\* runs = the number of those tasks and run_time = the sum of the durations
\* they reported; and no two handlers are inside the map at once.
Ended(n) == {h \in 1..MaxHandlers : handlers[h].name = n /\ handlers[h].phase = "done"}

Ending(n) ==
    {h \in 1..MaxHandlers :
        handlers[h].name = n /\ handlers[h].phase \in {"running", "waiting", "locked", "loaded"}}

RECURSIVE Reported(_, _)
Reported(n, k) ==
    IF k = 0 THEN 0
    ELSE Reported(n, k - 1) + (IF k \in Ended(n) THEN handlers[k].time ELSE 0)

C35_NoUpdateLost ==
    /\ \A n \in BenchNames :
          (Ended(n) /= {} /\ Ending(n) = {}) =>
              \E i \in 1..Len(benchLog) :
                  /\ benchLog[i].name = n
                  /\ benchLog[i].runs = Cardinality(Ended(n))
                  /\ benchLog[i].run_time = Reported(n, MaxHandlers)
    /\ \A h, k \in 1..MaxHandlers :
          (handlers[h].phase \in {"locked", "loaded"} /\ handlers[k].phase \in {"locked", "loaded"})
              => h = k

\* Three tasks of one name reported 2, 1 and 2: runs = 3, run_time = 5.
C35_Witness ==
    \E i \in 1..Len(benchLog) :
        /\ Ended(benchLog[i].name) = {1, 2, 3}
        /\ handlers[1].time = 2 /\ handlers[2].time = 1 /\ handlers[3].time = 2
        /\ benchLog[i].runs = 3
        /\ benchLog[i].run_time = 5

\* C38: the tasks S's loop received before its mailbox closed still run to
\* completion and answer their callers after the loop stopped. The step that
\* stops the loop changes no task's position, no reply, no guard and not the
\* state; once the loop has stopped, no task it launched is abandoned or
\* dropped, each of them can take its next step (send its Start message,
\* ask for its guard, run its body, return from execute, send its End
\* message), a task that left execute has sent its output to its caller,
\* and the state holds the effects of the bodies that ran.
LoopStops == ~stopped["S"] /\ stopped'["S"]

C38_Survives ==
    stopped["S"] =>
        /\ \A m \in Msgs :
              /\ pc[m] = "spawned" => ENABLED run_task_begin(m)
              /\ pc[m] = "wantLock" => ENABLED execute_lock(m)
              /\ pc[m] = "body" => ENABLED execute_body(m)
              /\ pc[m] = "replied" => ENABLED execute_return(m)
              /\ pc[m] = "post" => ENABLED run_task_end(m)
              /\ pc[m] \in {"post", "awaitEnd", "done"} => ReplySendDone(m)
        /\ counter = EffectsUpTo(Len(sent))

C38_Step ==
    /\ LoopStops =>
          /\ pc' = pc
          /\ reply' = reply
          /\ outcome' = outcome
          /\ counter' = counter
          /\ <<lockW, lockR, lockQueue>>' = <<lockW, lockR, lockQueue>>
    /\ \A m \in Msgs :
          (stopped["S"] /\ m \in InFlight) => pc'[m] \notin {"failed", "dropped"}

C38_InFlightSurviveStop == []C38_Survives /\ [][C38_Step]_vars

\* ------------------------------------------- the runs under a fair scheduler
\* The program whose subsystems keep running: the caller awaits each handle
\* before it sends again or sends without awaiting, keeps its refs and its
\* handles, both loops live, and every body returns.
LiveInit == Init /\ caller \in {"sequential", "concurrent"}

\* The next step of the run subsystem_run_task makes for message m.
Run(m) ==
    \/ run_task_begin(m)
    \/ run_task_started(m)
    \/ execute_lock(m)
    \/ execute_body(m)
    \/ execute_return(m)
    \/ run_task_end(m)
    \/ run_task_ended(m)

LiveNext ==
    \/ \E t \in Catalogue : send(t)
    \/ \E t \in Catalogue : send_mut(t)
    \/ start
    \/ \E m \in Msgs : run_task_begin(m)
    \/ \E m \in Msgs : run_task_started(m)
    \/ \E m \in Msgs : execute_lock(m)
    \/ \E m \in Msgs : execute_body(m)
    \/ \E m \in Msgs : execute_return(m)
    \/ \E m \in Msgs : run_task_end(m)
    \/ \E m \in Msgs : run_task_ended(m)
    \/ start_quiet
    \/ \E i \in tspawned : tasks_execute(i)
    \/ \E m \in Msgs : poll(m)

\* tokio polls every spawned task that was woken, and every future its
\* caller awaits: the two loops, each task run, each instrumentation task
\* and each awaited handle take the step they are able to take.
Fairness ==
    /\ WF_vars(start)
    /\ WF_vars(start_quiet)
    /\ WF_vars(\E i \in tspawned : tasks_execute(i))
    /\ \A m \in 1..MaxMsgs : WF_vars(m \in Msgs /\ Run(m))
    /\ \A m \in 1..MaxMsgs : WF_vars(m \in Msgs /\ poll(m))

LiveSpec == LiveInit /\ [][LiveNext]_vars /\ Fairness

\* C39: under a fair scheduler, with both subsystems running and bodies that
\* return, every handle send / send_mut returned eventually resolves to the
\* output of the task's body.
Answered(m) ==
    /\ m \in Msgs
    /\ outcome[m] /= Empty
    /\ handle[m] = Ok(outcome[m].val)

C39_EventualAnswer == \A m \in 1..MaxMsgs : (m \in Msgs) ~> Answered(m)

\* The caller that does not await sent a mut task and then a non-mut task;
\* their bodies ran in that order and both handles resolved to the outputs.
C39_Witness ==
    /\ caller = "concurrent"
    /\ Len(sent) = 2
    /\ sent[1].is_mut /\ ~sent[2].is_mut
    /\ doneOrder = <<1, 2>>
    /\ Answered(1)
    /\ Answered(2)

====
